---- MODULE Spec2Model ----
(***************************************************************************)
(* Relationship graph and influence scoring engine (GraphService in        *)
(* CDN/js/calendar.js) with its CRM collaborator (HubSpotService) and its  *)
(* enrichment collaborator (LinkedInService).                              *)
(*                                                                         *)
(* Representation                                                          *)
(*   - JavaScript strings that the code inspects with includes() or        *)
(*     toLowerCase() (titles, edge types) are tuples of one-character      *)
(*     strings.                                                            *)
(*   - ids are pairs <<prefix, n>>; `hubspot_contact_${id}` is             *)
(*     <<"hubspot_contact", n>>, the raw CRM id is <<"raw", n>>.           *)
(*   - edge strengths are counted in thousandths (0.9 is 900), so every    *)
(*     increment of updateRelationshipStrength is an integer.              *)
(*   - dates are day numbers; the clock does not cross a day boundary      *)
(*     within one page session.                                            *)
(***************************************************************************)
EXTENDS Integers, Sequences, FiniteSets, TLC

VARIABLES
  nodes,          \* GraphService.nodes
  edges,          \* GraphService.edges
  interactions,   \* GraphService.interactions
  initialized,    \* GraphService.initialized
  pc,             \* where the pending initialize() call is suspended
  idx,            \* loop position of the pending call (index into its contacts)
  today,          \* the day new Date() falls on
  hubspotOn,      \* window.hubspotService.isConfigured()
  linkedinOn,     \* window.linkedinService.isConfigured()
  thrown,         \* the error the last call let escape to its caller
  tracked,        \* number of trackInteraction calls so far (Date.now() ticks)
  pathQuery,      \* arguments of the last findPath call
  pathResult,     \* value returned by the last findPath call
  pipeline,       \* the deals dataService.getPipeline() resolves to
  analysis,       \* value the last SalesOrchestratorService.analyze() resolved to
  graphData,      \* argument and value of the last getGraphData call
  orgChart,       \* the getOrgChart call: its position, locals and result
  calls,          \* two overlapping initialize() calls: position and locals
  tasks           \* TodoService.tasks

vars == <<nodes, edges, interactions, initialized, pc, idx, today,
          hubspotOn, linkedinOn, thrown, tracked, pathQuery, pathResult,
          pipeline, analysis,
                 graphData, orgChart, calls,
                 tasks>>

----------------------------------------------------------------------------
(* Bounds of the model *)

MaxBatch == 3       \* longest contact list a CRM fetch returns
MaxTracks == 1      \* trackInteraction calls per session
MaxPathEdges == 4   \* edges of a graph handed to findPath
MaxDepthArg == 2    \* largest maxDepth argument tried with findPath
MaxTitleWords == 2  \* words of a job title of the title import

----------------------------------------------------------------------------
(* JavaScript strings *)

UpperCaseLetters ==
  <<"A", "B", "C", "D", "E", "F", "G", "H", "I", "J", "K", "L", "M",
    "N", "O", "P", "Q", "R", "S", "T", "U", "V", "W", "X", "Y", "Z">>

LowerCaseLetters ==
  <<"a", "b", "c", "d", "e", "f", "g", "h", "i", "j", "k", "l", "m",
    "n", "o", "p", "q", "r", "s", "t", "u", "v", "w", "x", "y", "z">>

\* the lower-case letter of each upper-case letter
LowerOf ==
  [c \in {UpperCaseLetters[k] : k \in 1..26} |->
     LowerCaseLetters[CHOOSE k \in 1..26 : UpperCaseLetters[k] = c]]

\* String.prototype.toLowerCase
ToLowerCase(s) ==
  [i \in 1..Len(s) |-> IF s[i] \in DOMAIN LowerOf THEN LowerOf[s[i]] ELSE s[i]]

\* String.prototype.includes
Includes(s, sub) ==
  \E i \in 1..(Len(s) - Len(sub) + 1) :
    \A k \in 1..Len(sub) : s[i + k - 1] = sub[k]

Min(a, b) == IF a <= b THEN a ELSE b

\* the first of a set of positions of an array (Array.prototype.find keeps
\* the first match), 0 when the set is empty
First(hits) ==
  IF hits = {} THEN 0 ELSE CHOOSE i \in hits : \A j \in hits : i <= j

----------------------------------------------------------------------------
(* Edge types and keywords *)

REPORTS_TO == <<"r", "e", "p", "o", "r", "t", "s", "_", "t", "o">>
MANAGES == <<"m", "a", "n", "a", "g", "e", "s">>
WORKS_AT == <<"w", "o", "r", "k", "s", "_", "a", "t">>
BELONGS_TO == <<"b", "e", "l", "o", "n", "g", "s", "_", "t", "o">>
DECISION_MAKER_FOR ==
  <<"d", "e", "c", "i", "s", "i", "o", "n", "_", "m", "a", "k", "e", "r",
    "_", "f", "o", "r">>
INFLUENCER_FOR ==
  <<"i", "n", "f", "l", "u", "e", "n", "c", "e", "r", "_", "f", "o", "r">>
WORKS_WITH == <<"w", "o", "r", "k", "s", "_", "w", "i", "t", "h">>
FORMER_COLLEAGUE ==
  <<"f", "o", "r", "m", "e", "r", "_", "c", "o", "l", "l", "e", "a", "g",
    "u", "e">>
ALUMNI == <<"a", "l", "u", "m", "n", "i">>
CONNECTED == <<"c", "o", "n", "n", "e", "c", "t", "e", "d">>
MUTUAL_CONNECTION ==
  <<"m", "u", "t", "u", "a", "l", "_", "c", "o", "n", "n", "e", "c", "t",
    "i", "o", "n">>
SUGGESTED == <<"s", "u", "g", "g", "e", "s", "t", "e", "d">>

KwDeal == <<"d", "e", "a", "l">>

\* job titles occurring in the fixtures and in the CRM records of the model
TitleVP == <<"V", "P", " ", "o", "f", " ", "E", "n", "g", "i", "n", "e", "e",
             "r", "i", "n", "g">>
TitleCTO == <<"C", "T", "O">>
TitleProcurement ==
  <<"P", "r", "o", "c", "u", "r", "e", "m", "e", "n", "t", " ", "M", "a",
    "n", "a", "g", "e", "r">>
TitleEngManager ==
  <<"E", "n", "g", "i", "n", "e", "e", "r", "i", "n", "g", " ", "M", "a",
    "n", "a", "g", "e", "r">>
TitleCEO == <<"C", "E", "O">>
TitleManager == <<"M", "a", "n", "a", "g", "e", "r">>
NoTitle == <<>>

\* the value of a missing property (undefined / null / '')
None == <<"none", 0>>

Raw(n) == <<"raw", n>>

----------------------------------------------------------------------------
(* Influence scorer *)

RecentWindowDays == 90

\* roleScores, in the insertion order Object.entries walks
RoleScores ==
  << [role |-> <<"c", "e", "o">>, points |-> 30],
     [role |-> <<"c", "t", "o">>, points |-> 25],
     [role |-> <<"c", "f", "o">>, points |-> 25],
     [role |-> <<"v", "p">>, points |-> 20],
     [role |-> <<"d", "i", "r", "e", "c", "t", "o", "r">>, points |-> 15],
     [role |-> <<"m", "a", "n", "a", "g", "e", "r">>, points |-> 10],
     [role |-> <<"o", "t", "h", "e", "r">>, points |-> 5] >>

\* step 1 of calculateContactInfluence: the first role whose name the
\* lower-cased title includes; nothing is added when no role matches
RolePoints(title) ==
  LET lt == ToLowerCase(title)
      k == First({x \in DOMAIN RoleScores : Includes(lt, RoleScores[x].role)})
  IN IF k = 0 THEN 0 ELSE RoleScores[k].points

Structural(e) == e.type = WORKS_AT \/ e.type = BELONGS_TO

Touches(e, id) == e.source = id \/ e.target = id

\* step 2: edges leaving the contact whose type includes 'deal'
DealPoints(es, contactId) ==
  Min(Cardinality({x \in DOMAIN es : /\ es[x].source = contactId
                                      /\ Includes(es[x].type, KwDeal)}) * 10,
      20)

\* step 3: strong relationships
StrengthPoints(es, contactId) ==
  Min(Cardinality({x \in DOMAIN es : /\ Touches(es[x], contactId)
                                      /\ ~Structural(es[x])
                                      /\ es[x].strength >= 700}) * 3,
      20)

\* step 4: interactions of the last 90 days
RecencyPoints(ints, now, contactId) ==
  Min(Cardinality({x \in DOMAIN ints :
                     /\ ints[x].contactId = contactId
                     /\ now - ints[x].date <= RecentWindowDays}) * 2,
      15)

\* step 5, in half points: connections * 1.5 capped at 15
CentralityHalfPoints(es, contactId) ==
  Min(Cardinality({x \in DOMAIN es : Touches(es[x], contactId) /\ ~Structural(es[x])}) * 3, 30)

\* Math.round of a non-negative number of half points
RoundHalves(h) == (h + 1) \div 2

CalculateContactInfluence(ns, es, ints, now, contactId) ==
  LET ci == First({x \in DOMAIN ns : ns[x].id = contactId})
  IN IF ci = 0 THEN 0
     ELSE IF ns[ci].type # "contact" THEN 0
     ELSE Min(RoundHalves(2 * (RolePoints(ns[ci].title)
                               + DealPoints(es, contactId)
                               + StrengthPoints(es, contactId)
                               + RecencyPoints(ints, now, contactId))
                          + CentralityHalfPoints(es, contactId)),
              100)

CalculateInfluenceScores(ns, es, ints, now) ==
  [i \in DOMAIN ns |->
     IF ns[i].type = "contact"
       THEN [ns[i] EXCEPT !.influenceScore =
                            CalculateContactInfluence(ns, es, ints, now, ns[i].id)]
       ELSE ns[i]]

----------------------------------------------------------------------------
(* Built-in fixtures (loadMockGraphData) *)

\* variant: a node is created with the marker -1 for "not calculated yet"
NodeUnscored(id, type, title, role, hubspotId) ==
  [id |-> id, type |-> type, title |-> title, role |-> role,
   influenceScore |-> 0 - 1, hubspotId |-> hubspotId, verified |-> FALSE]

Node(id, type, title, role, hubspotId) ==
  [id |-> id, type |-> type, title |-> title, role |-> role,
   influenceScore |-> 0, hubspotId |-> hubspotId, verified |-> FALSE]

Edge(id, source, target, type, strength, confirmed) ==
  [id |-> id, source |-> source, target |-> target, type |-> type,
   strength |-> strength, confirmed |-> confirmed]

Interaction(id, contactId, type, date, duration, completed) ==
  [id |-> id, contactId |-> contactId, type |-> type, date |-> date,
   duration |-> duration, completed |-> completed]

MC(n) == <<"contact", n>>
MA(n) == <<"account", n>>
MD(n) == <<"deal", n>>
ME(n) == <<"edge", n>>

MockNodes ==
  << Node(MC(1), "contact", TitleVP, "decision_maker", None),
     Node(MC(2), "contact", TitleCTO, "decision_maker", None),
     Node(MC(3), "contact", TitleProcurement, "influencer", None),
     Node(MC(4), "contact", TitleEngManager, "end_user", None),
     Node(MC(5), "contact", TitleCEO, "decision_maker", None),
     Node(MA(1), "account", NoTitle, "", None),
     Node(MA(2), "account", NoTitle, "", None),
     Node(MD(1), "deal", NoTitle, "", None),
     Node(MD(2), "deal", NoTitle, "", None) >>

MockEdges ==
  << Edge(ME(1), MC(2), MC(1), REPORTS_TO, 900, TRUE),
     Edge(ME(2), MC(1), MC(4), MANAGES, 850, TRUE),
     Edge(ME(3), MC(1), MC(3), WORKS_WITH, 700, TRUE),
     Edge(ME(4), MC(1), MD(1), DECISION_MAKER_FOR, 950, TRUE),
     Edge(ME(5), MC(2), MD(1), INFLUENCER_FOR, 800, TRUE),
     Edge(ME(6), MC(3), MD(1), INFLUENCER_FOR, 600, TRUE),
     Edge(ME(7), MC(5), MD(2), DECISION_MAKER_FOR, 900, TRUE),
     Edge(ME(8), MC(1), MA(1), WORKS_AT, 1000, TRUE),
     Edge(ME(9), MC(2), MA(1), WORKS_AT, 1000, TRUE),
     Edge(ME(10), MC(3), MA(1), WORKS_AT, 1000, TRUE),
     Edge(ME(11), MC(4), MA(1), WORKS_AT, 1000, TRUE),
     Edge(ME(12), MC(5), MA(2), WORKS_AT, 1000, TRUE),
     Edge(ME(13), MD(1), MA(1), BELONGS_TO, 1000, TRUE),
     Edge(ME(14), MD(2), MA(2), BELONGS_TO, 1000, TRUE),
     Edge(ME(15), MC(1), MC(5), FORMER_COLLEAGUE, 500, FALSE) >>

\* dates are days of January 2024 (day 15 is 2024-01-15)
MockInteractions ==
  << Interaction(<<"int", 1>>, MC(1), "call", 15, 30, "unset"),
     Interaction(<<"int", 2>>, MC(1), "email", 14, 0, "unset"),
     Interaction(<<"int", 3>>, MC(2), "call", 10, 45, "unset"),
     Interaction(<<"int", 4>>, MC(3), "meeting", 8, 60, "unset"),
     Interaction(<<"int", 5>>, MC(1), "call", 5, 20, "unset") >>

----------------------------------------------------------------------------
(* CRM collaborator (HubSpotService) *)

\* a || b for values whose only falsy form is the missing value
Or(a, b) == IF a # None THEN a ELSE b

RECURSIVE Flatten(_)
Flatten(ss) == IF ss = <<>> THEN <<>> ELSE Head(ss) \o Flatten(Tail(ss))

DetermineRole(title) ==
  LET t == ToLowerCase(title)
  IN IF Includes(t, <<"c", "e", "o">>)
        \/ Includes(t, <<"c", "h", "i", "e", "f", " ", "e", "x", "e", "c",
                         "u", "t", "i", "v", "e">>)
       THEN "decision_maker"
     ELSE IF Includes(t, <<"c", "t", "o">>)
        \/ Includes(t, <<"c", "h", "i", "e", "f", " ", "t", "e", "c", "h",
                         "n", "o", "l", "o", "g", "y">>)
       THEN "decision_maker"
     ELSE IF Includes(t, <<"c", "f", "o">>)
        \/ Includes(t, <<"c", "h", "i", "e", "f", " ", "f", "i", "n", "a",
                         "n", "c", "i", "a", "l">>)
       THEN "decision_maker"
     ELSE IF Includes(t, <<"v", "p">>)
        \/ Includes(t, <<"v", "i", "c", "e", " ", "p", "r", "e", "s", "i",
                         "d", "e", "n", "t">>)
       THEN "decision_maker"
     ELSE IF Includes(t, <<"d", "i", "r", "e", "c", "t", "o", "r">>)
       THEN "influencer"
     ELSE IF Includes(t, <<"m", "a", "n", "a", "g", "e", "r">>)
       THEN "influencer"
     ELSE "end_user"

NormalizeContacts(contacts) ==
  [i \in DOMAIN contacts |->
     [id |-> <<"hubspot_contact", contacts[i].id[2]>>,
      hubspotId |-> contacts[i].id,
      title |-> contacts[i].jobtitle,
      companyId |-> contacts[i].company,
      reportsTo |-> Or(contacts[i].reports_to, contacts[i].manager_id),
      managerId |-> contacts[i].manager_id,
      role |-> DetermineRole(contacts[i].jobtitle)]]

NormalizeDeals(deals) ==
  [i \in DOMAIN deals |->
     [id |-> <<"hubspot_deal", deals[i].id[2]>>,
      hubspotId |-> deals[i].id,
      companyId |-> deals[i].company,
      contactIds |-> deals[i].contacts]]

NormalizeCompanies(companies) ==
  [i \in DOMAIN companies |->
     [id |-> <<"hubspot_company", companies[i].id[2]>>,
      hubspotId |-> companies[i].id]]

DetermineInteractionType(activityType) ==
  CASE activityType = "CALL" -> "call"
    [] activityType = "EMAIL" -> "email"
    [] activityType = "MEETING" -> "meeting"
    [] activityType = "NOTE" -> "note"
    [] activityType = "TASK" -> "task"
    [] OTHER -> "other"

NormalizeInteractions(list) ==
  [i \in DOMAIN list |->
     [id |-> <<"hubspot_int", list[i].id[2]>>,
      type |-> DetermineInteractionType(list[i].type),
      date |-> list[i].createdAt,
      duration |-> list[i].duration]]

\* the lists the getters fall back to when the backend cannot be reached
GetMockContacts ==
  << [id |-> <<"hubspot_contact", 1>>, hubspotId |-> Raw(1), title |-> TitleVP,
      companyId |-> None, reportsTo |-> None, managerId |-> None,
      role |-> "decision_maker"] >>

GetMockDeals ==
  << [id |-> <<"hubspot_deal", 1>>, hubspotId |-> Raw(1), companyId |-> None,
      contactIds |-> <<>>] >>

GetMockCompanies ==
  << [id |-> <<"hubspot_company", 1>>, hubspotId |-> Raw(1)] >>

(* Records held by the CRM backend of the model, in the order the backend *)
(* lists them: Alice, who reports to nobody, Bob, who reports to Alice,    *)
(* and an older record of Bob without title, manager and company.          *)
RawContacts ==
  << [id |-> Raw(1), jobtitle |-> TitleCTO, reports_to |-> None,
      manager_id |-> None, company |-> Raw(1)],
     [id |-> Raw(2), jobtitle |-> TitleManager, reports_to |-> Raw(1),
      manager_id |-> None, company |-> Raw(1)],
     [id |-> Raw(2), jobtitle |-> NoTitle, reports_to |-> None,
      manager_id |-> None, company |-> None] >>

(* A batch lists records in the backend's order.  It may hold a record    *)
(* more than once, both records of Bob, and Bob without Alice.             *)
RawBatches ==
  LET picks == UNION {[1..n -> DOMAIN RawContacts] : n \in 0..MaxBatch}
      ordered == {p \in picks :
                    \A i \in DOMAIN p, j \in DOMAIN p : i < j => p[i] <= p[j]}
  IN {[i \in DOMAIN p |-> RawContacts[p[i]]] : p \in ordered}

RawCompany == [id |-> Raw(1)]

RawDeal == [id |-> Raw(1), company |-> Raw(1), contacts |-> <<Raw(1), Raw(2)>>]

(* What getContacts(), getDeals() and getCompanies() can resolve to: the   *)
(* backend answers the three requests of one import, or none of them and   *)
(* each getter falls back to its mock list.                                 *)
Fetches ==
  {[contacts |-> GetMockContacts, deals |-> GetMockDeals,
    companies |-> GetMockCompanies]} \cup
  {[contacts |-> NormalizeContacts(b), deals |-> NormalizeDeals(<<RawDeal>>),
    companies |-> NormalizeCompanies(<<RawCompany>>)] : b \in RawBatches}

\* activities the CRM backend holds for a contact: two for Bob, none for others
CrmInteractions(hubspotId) ==
  IF hubspotId = Raw(2)
    THEN << [id |-> Raw(1), type |-> "CALL", createdAt |-> 20, duration |-> 45],
            [id |-> Raw(2), type |-> "EMAIL", createdAt |-> 390, duration |-> 0] >>
    ELSE <<>>

----------------------------------------------------------------------------
(* loadFromHubSpot: the graph built from one fetched batch *)

ContactNodes(contacts) ==
  [i \in DOMAIN contacts |->
     Node(contacts[i].id, "contact", contacts[i].title, contacts[i].role,
          contacts[i].hubspotId)]

CompanyNodes(companies) ==
  [i \in DOMAIN companies |->
     Node(companies[i].id, "account", NoTitle, "", companies[i].hubspotId)]

DealNodes(deals) ==
  [i \in DOMAIN deals |->
     Node(deals[i].id, "deal", NoTitle, "", deals[i].hubspotId)]

\* the reports_to edge of one contact, or nothing
ReportsToEdges(contact, contacts) ==
  IF contact.reportsTo # None \/ contact.managerId # None
    THEN LET managerId == Or(contact.reportsTo, contact.managerId)
             m == First({x \in DOMAIN contacts :
                           \/ contacts[x].id = managerId
                           \/ contacts[x].hubspotId = managerId})
         IN IF m # 0
              THEN << Edge(<<"reports", contact.id, contacts[m].id>>, contact.id,
                           contacts[m].id, REPORTS_TO, 900, TRUE) >>
              ELSE <<>>
    ELSE <<>>

\* the works_at edge of one contact, or nothing
WorksAtEdges(contact, companies) ==
  IF contact.companyId # None
    THEN LET k == First({x \in DOMAIN companies : companies[x].hubspotId = contact.companyId})
         IN IF k # 0
              THEN << Edge(<<"works_at", contact.id, companies[k].id>>, contact.id,
                           companies[k].id, WORKS_AT, 1000, TRUE) >>
              ELSE <<>>
    ELSE <<>>

BelongsToEdges(deal, companies) ==
  IF deal.companyId # None
    THEN LET k == First({x \in DOMAIN companies : companies[x].hubspotId = deal.companyId})
         IN IF k # 0
              THEN << Edge(<<"belongs_to", deal.id, companies[k].id>>, deal.id,
                           companies[k].id, BELONGS_TO, 1000, TRUE) >>
              ELSE <<>>
    ELSE <<>>

DealContactEdges(deal, contacts) ==
  Flatten([j \in DOMAIN deal.contactIds |->
     LET k == First({x \in DOMAIN contacts : contacts[x].hubspotId = deal.contactIds[j]})
     IN IF k = 0 THEN <<>>
        ELSE IF contacts[k].role = "decision_maker"
          THEN << Edge(<<"decision_maker_for", contacts[k].id, deal.id>>,
                       contacts[k].id, deal.id, DECISION_MAKER_FOR, 950, TRUE) >>
          ELSE << Edge(<<"influencer_for", contacts[k].id, deal.id>>,
                       contacts[k].id, deal.id, INFLUENCER_FOR, 700, TRUE) >>])

LoadFromHubSpotNodes(contacts, deals, companies) ==
  ContactNodes(contacts) \o CompanyNodes(companies) \o DealNodes(deals)

LoadFromHubSpotEdges(contacts, deals, companies) ==
  Flatten([i \in DOMAIN contacts |->
             ReportsToEdges(contacts[i], contacts)
             \o WorksAtEdges(contacts[i], companies)])
  \o Flatten([i \in DOMAIN deals |->
                BelongsToEdges(deals[i], companies)
                \o DealContactEdges(deals[i], contacts)])

----------------------------------------------------------------------------
(* Enrichment collaborator (LinkedInService) *)

\* headline of the profile the enrichment backend returns
ProfileHeadline == TitleEngManager

\* mergeLinkedInData followed by Object.assign(contact, enriched)
MergeLinkedInData(contact) ==
  [contact EXCEPT !.verified = TRUE,
                  !.title = IF contact.title # NoTitle THEN contact.title
                            ELSE ProfileHeadline]

DetermineRelationshipType(type) ==
  CASE type = "colleague" -> FORMER_COLLEAGUE
    [] type = "school" -> ALUMNI
    [] type = "connection" -> CONNECTED
    [] type = "mutual" -> MUTUAL_CONNECTION
    [] OTHER -> SUGGESTED

\* a missing confidence or strength is 0, which JavaScript also takes as absent
NormalizeRelationships(relationships) ==
  [i \in DOMAIN relationships |->
     [source |-> relationships[i].sourceId,
      target |-> relationships[i].targetId,
      type |-> DetermineRelationshipType(relationships[i].type),
      strength |-> IF relationships[i].confidence # 0
                     THEN relationships[i].confidence
                   ELSE IF relationships[i].strength # 0
                     THEN relationships[i].strength
                   ELSE 500]]

Rel(s, t, type, confidence) ==
  [sourceId |-> s, targetId |-> t, type |-> type, confidence |-> confidence,
   strength |-> 0]

\* a member of the network that is not among the contacts sent
Outsider == <<"linkedin_member", 7>>

(* Bodies the /relationships endpoint answers with for contact c, asked   *)
(* about the contacts others: nothing, a colleague among the others with  *)
(* confidence 0.8 or with a confidence given in percent (85), or a mutual *)
(* connection outside the contacts sent.                                  *)
RelationshipResponses(c, others) ==
  { <<>>, << Rel(c, Outsider, "mutual", 0) >> } \cup
  { << Rel(c, o, "colleague", conf) >> : o \in others, conf \in {800, 85000} } \cup
  { << Rel(c, o, "colleague", 800), Rel(o, c, "school", 800) >> : o \in others }

\* every body the endpoint can answer with, whoever is asked about
PossibleResponses ==
  LET cids == {<<"hubspot_contact", n>> : n \in 1..2}
  IN UNION {RelationshipResponses(c, cids \ {c}) : c \in cids}

\* variant: the loop looks for an edge in the direction of the suggestion only
RECURSIVE AddSuggestionsDirected(_, _)
AddSuggestionsDirected(es, suggestions) ==
  IF suggestions = <<>> THEN es
  ELSE LET s == Head(suggestions)
           exists == \E i \in DOMAIN es :
                        es[i].source = s.source /\ es[i].target = s.target
       IN AddSuggestionsDirected(
            IF exists THEN es
            ELSE Append(es, Edge(<<"linkedin", s.source, s.target>>, s.source,
                                 s.target, s.type, s.strength, FALSE)),
            Tail(suggestions))

\* the loop over suggestions in enrichWithLinkedIn
RECURSIVE AddSuggestions(_, _)
AddSuggestions(es, suggestions) ==
  IF suggestions = <<>> THEN es
  ELSE LET s == Head(suggestions)
           exists == \E i \in DOMAIN es :
                        \/ es[i].source = s.source /\ es[i].target = s.target
                        \/ es[i].source = s.target /\ es[i].target = s.source
       IN AddSuggestions(
            IF exists THEN es
            ELSE Append(es, Edge(<<"linkedin", s.source, s.target>>, s.source,
                                 s.target, s.type, s.strength, FALSE)),
            Tail(suggestions))

----------------------------------------------------------------------------
(* GraphService: relationship strength updater *)

\* the type-dependent increase, in thousandths
BaseIncrease(interactionType, metadata) ==
  CASE interactionType = "call" -> 20 + (IF metadata.duration > 30 THEN 30 ELSE 0)
    [] interactionType = "meeting" -> 40
    [] interactionType = "email" -> 10
    [] OTHER -> 5

\* variant: the completion bonus is applied whatever metadata.completed is
IncreaseAlwaysBonus(interactionType, metadata) ==
  (BaseIncrease(interactionType, metadata) * 12) \div 10

\* increase *= 1.2 unless metadata.completed === false
Increase(interactionType, metadata) ==
  IF metadata.completed # "false"
    THEN (BaseIncrease(interactionType, metadata) * 12) \div 10
    ELSE BaseIncrease(interactionType, metadata)

UpdateRelationshipStrength(es, contactId, interactionType, metadata) ==
  [i \in DOMAIN es |->
     IF Touches(es[i], contactId) /\ ~Structural(es[i])
       THEN [es[i] EXCEPT !.strength =
               Min(es[i].strength + Increase(interactionType, metadata), 1000)]
       ELSE es[i]]

----------------------------------------------------------------------------
(* GraphService: shortest path *)

DefaultMaxDepth == 3

NoPath == [found |-> FALSE, path |-> <<>>]

\* what nodes.find returns for an id no node has
UndefinedNode == Node(None, "undefined", NoTitle, "", None)

NodeById(ns, id) ==
  LET k == First({x \in DOMAIN ns : ns[x].id = id})
  IN IF k = 0 THEN UndefinedNode ELSE ns[k]

\* variant: works_at and belongs_to edges are walked like any other edge
NeighborsAnyType(es, currentId) ==
  LET touching == SelectSeq(es, LAMBDA e : Touches(e, currentId))
  IN [i \in DOMAIN touching |->
        IF touching[i].source = currentId THEN touching[i].target
        ELSE touching[i].source]

\* the neighbours of currentId in edge order
Neighbors(es, currentId) ==
  LET touching == SelectSeq(es, LAMBDA e : Touches(e, currentId) /\ ~Structural(e))
  IN [i \in DOMAIN touching |->
        IF touching[i].source = currentId THEN touching[i].target
        ELSE touching[i].source]

\* the while loop of findPath; a queue entry is <<node id, path of ids>>
RECURSIVE FindPathLoop(_, _, _, _, _, _)
FindPathLoop(ns, es, queue, visited, targetId, maxDepth) ==
  IF queue = <<>> THEN NoPath
  ELSE LET currentId == Head(queue)[1]
           path == Head(queue)[2]
           rest == Tail(queue)
       IN IF currentId = targetId
            THEN [found |-> TRUE,
                  path |-> [i \in DOMAIN path |-> NodeById(ns, path[i])]]
          ELSE IF Len(path) > maxDepth
            THEN FindPathLoop(ns, es, rest, visited, targetId, maxDepth)
          ELSE IF currentId \in visited
            THEN FindPathLoop(ns, es, rest, visited, targetId, maxDepth)
          ELSE LET seen == visited \cup {currentId}
                   fresh == SelectSeq(Neighbors(es, currentId),
                                      LAMBDA n : n \notin seen)
                   pushed == [i \in DOMAIN fresh |->
                                <<fresh[i], Append(path, fresh[i])>>]
               IN FindPathLoop(ns, es, rest \o pushed, seen, targetId, maxDepth)

FindPath(ns, es, sourceId, targetId, maxDepth) ==
  FindPathLoop(ns, es, << <<sourceId, <<sourceId>>>> >>, {}, targetId, maxDepth)

----------------------------------------------------------------------------
(* GraphService.initialize and the asynchronous steps it is made of.      *)
(* A helper takes and returns the record of the fields a step may change. *)

Store == [nodes |-> nodes, edges |-> edges, interactions |-> interactions,
          initialized |-> initialized, pc |-> pc, idx |-> idx]

Apply(st) ==
  /\ nodes' = st.nodes
  /\ edges' = st.edges
  /\ interactions' = st.interactions
  /\ initialized' = st.initialized
  /\ pc' = st.pc
  /\ idx' = st.idx

\* const contacts = this.nodes.filter(n => n.type === 'contact'), as positions
ContactIdxs(ns) ==
  SelectSeq([i \in DOMAIN ns |-> i], LAMBDA i : ns[i].type = "contact")

\* variant: initialize sets the flag without recalculating the scores
FinishStale(st) == [st EXCEPT !.initialized = TRUE, !.pc = "idle", !.idx = 0]

\* the end of initialize: calculateInfluenceScores(); initialized = true
Finish(st) ==
  [st EXCEPT !.nodes = CalculateInfluenceScores(st.nodes, st.edges,
                                                st.interactions, today),
             !.initialized = TRUE, !.pc = "idle", !.idx = 0]

\* variant: the loop of enrichWithLinkedIn ends after its first contact
EnrichFromFirstOnly(st, k) ==
  IF k > Len(ContactIdxs(st.nodes)) \/ k > 1 THEN Finish(st)
  ELSE [st EXCEPT !.pc = "enrich", !.idx = k]

\* enrichWithLinkedIn from its k-th contact on, up to the next await
EnrichFrom(st, k) ==
  IF k > Len(ContactIdxs(st.nodes)) THEN Finish(st)
  ELSE [st EXCEPT !.pc = "enrich", !.idx = k]

\* back in initialize after loadFromHubSpot has resolved
AfterLoad(st) == IF linkedinOn THEN EnrichFrom(st, 1) ELSE Finish(st)

\* loadInteractionHistory from its k-th contact on, up to the next await
HistoryFrom(st, k) ==
  LET cs == ContactIdxs(st.nodes)
      waiting == {j \in k..Len(cs) : st.nodes[cs[j]].hubspotId # None}
  IN IF waiting = {} THEN AfterLoad(st)
     ELSE [st EXCEPT !.pc = "history",
                     !.idx = CHOOSE j \in waiting : \A m \in waiting : j <= m]

\* loadMockGraphData
LoadMockGraphData(st) ==
  [st EXCEPT !.nodes = CalculateInfluenceScores(MockNodes, MockEdges,
                                                MockInteractions, today),
             !.edges = MockEdges,
             !.interactions = MockInteractions]

\* initialize() is called; one call is pending at a time
Initialize ==
  /\ pc = "idle"
  /\ \/ /\ initialized
        /\ UNCHANGED <<nodes, edges, interactions, initialized, pc, idx>>
     \/ /\ ~initialized
        /\ hubspotOn
        /\ pc' = "fetch"
        /\ UNCHANGED <<nodes, edges, interactions, initialized, idx>>
     \/ /\ ~initialized
        /\ ~hubspotOn
        /\ Apply(Finish(LoadMockGraphData(Store)))
  /\ UNCHANGED <<today, hubspotOn, linkedinOn, thrown, tracked, pathQuery,
                 pathResult, pipeline, analysis,
                 graphData, orgChart, calls,
                 tasks>>

\* loadFromHubSpot resumes with the three fetched lists
LoadFromHubSpot(contacts, rest) ==
  /\ pc = "fetch"
  /\ Apply(HistoryFrom(
       [Store EXCEPT
          !.nodes = LoadFromHubSpotNodes(contacts, rest.deals, rest.companies),
          !.edges = LoadFromHubSpotEdges(contacts, rest.deals, rest.companies)],
       1))
  /\ UNCHANGED <<today, hubspotOn, linkedinOn, thrown, tracked, pathQuery,
                 pathResult, pipeline, analysis,
                 graphData, orgChart, calls,
                 tasks>>

\* loadInteractionHistory resumes with one contact's activities ([] on failure)
LoadInteractionHistory(ok) ==
  /\ pc = "history"
  /\ LET contact == nodes[ContactIdxs(nodes)[idx]]
         list == IF ok THEN NormalizeInteractions(CrmInteractions(contact.hubspotId))
                 ELSE <<>>
         added == [i \in DOMAIN list |->
                     Interaction(list[i].id, contact.id, list[i].type,
                                 list[i].date, list[i].duration, "unset")]
     IN Apply(HistoryFrom([Store EXCEPT !.interactions = interactions \o added],
                          idx + 1))
  /\ UNCHANGED <<today, hubspotOn, linkedinOn, thrown, tracked, pathQuery,
                 pathResult, pipeline, analysis,
                 graphData, orgChart, calls,
                 tasks>>

\* whether the enrichment backend can find a profile for the contact: the
\* network of the model knows Alice (CRM id 1) only
HasProfile(contact) == contact.hubspotId = Raw(1)

\* enrichWithLinkedIn resumes from enrichContact, with or without a profile
EnrichContact(profile) ==
  /\ pc = "enrich"
  /\ profile => HasProfile(nodes[ContactIdxs(nodes)[idx]])
  /\ LET ci == ContactIdxs(nodes)[idx]
         enriched == IF profile THEN MergeLinkedInData(nodes[ci]) ELSE nodes[ci]
         st == [Store EXCEPT !.nodes = [nodes EXCEPT ![ci] = enriched]]
     IN IF enriched.verified
          THEN Apply([st EXCEPT !.pc = "suggest"])
          ELSE Apply(EnrichFrom(st, idx + 1))
  /\ UNCHANGED <<today, hubspotOn, linkedinOn, thrown, tracked, pathQuery,
                 pathResult, pipeline, analysis,
                 graphData, orgChart, calls,
                 tasks>>

\* enrichWithLinkedIn resumes from getRelationshipSuggestions with the body
\* the endpoint answered; the loop pushes edges and nothing in it throws
RelationshipSuggestions(response) ==
  /\ pc = "suggest"
  /\ LET cs == ContactIdxs(nodes)
         contact == nodes[cs[idx]]
         others == {nodes[cs[j]].id : j \in DOMAIN cs} \ {contact.id}
     IN /\ response \in RelationshipResponses(contact.id, others)
        /\ Apply(EnrichFrom(
             [Store EXCEPT !.edges =
                AddSuggestions(edges, NormalizeRelationships(response))],
             idx + 1))
  /\ UNCHANGED <<today, hubspotOn, linkedinOn, thrown, tracked, pathQuery,
                 pathResult, pipeline, analysis,
                 graphData, orgChart, calls,
                 tasks>>

----------------------------------------------------------------------------
(* GraphService.trackInteraction *)

\* the (type, metadata) pairs the UI of the model tracks: calls short and long,
\* a long call not completed, and the other types, completed or not
TrackCalls ==
  { [type |-> "call", duration |-> 45, completed |-> "unset"],
    [type |-> "call", duration |-> 45, completed |-> "false"],
    [type |-> "call", duration |-> 0, completed |-> "unset"],
    [type |-> "meeting", duration |-> 0, completed |-> "unset"],
    [type |-> "email", duration |-> 0, completed |-> "false"],
    [type |-> "note", duration |-> 0, completed |-> "unset"] }

\* the one call the model makes on a store that holds nothing yet
EarlyTrackCalls ==
  { [type |-> "call", duration |-> 45, completed |-> "unset"] }

\* trackInteraction is called while no initialize() call is suspended; the
\* method itself has no precondition
TrackInteraction(contactId, type, metadata) ==
  /\ pc = "idle"
  /\ tracked < MaxTracks
  /\ tracked' = tracked + 1
  /\ interactions' = Append(interactions,
       Interaction(<<"int_now", tracked + 1>>, contactId, type, today,
                   metadata.duration,
                   IF metadata.completed # "false" THEN "true" ELSE "false"))
  /\ edges' = UpdateRelationshipStrength(edges, contactId, type, metadata)
  /\ nodes' = CalculateInfluenceScores(nodes, edges', interactions', today)
  /\ UNCHANGED <<initialized, pc, idx, today, hubspotOn, linkedinOn, thrown,
                 pathQuery, pathResult, pipeline, analysis,
                 graphData, orgChart, calls,
                 tasks>>

----------------------------------------------------------------------------
(* The page session *)

\* the session runs on day 400: the fixtures of January 2024 and the CRM call
\* of day 20 are older than 90 days, the CRM email of day 390 is not
ClockDays == {400}

NoQuery == [source |-> None, target |-> None, maxDepth |-> 0]

\* a filter field that is undefined
NoFilter == [accountId |-> None, dealId |-> None, minInfluence |-> 0]

\* getGraphData has not been called
NoGraphData == [called |-> FALSE, filter |-> NoFilter, nodes |-> <<>>,
                edges |-> <<>>]

\* an initialize() call that has not been made; contacts is the list its
\* loop walks once the store has let go of it, suggestions the last list
\* getRelationshipSuggestions resolved to
NoCall == [pc |-> "new", idx |-> 0, detached |-> FALSE, contacts |-> <<>>,
           suggestions |-> <<>>]

NoCalls == [p \in 1..2 |-> NoCall]

\* getOrgChart has not been called
NoOrgChart == [pc |-> "idle", accountId |-> None, keys |-> <<>>,
               hierarchy |-> <<>>, cursor |-> 0, current |-> None,
               visited |-> {}, depth |-> 0]

\* analyze() has not been called
NoAnalysis == [called |-> FALSE, hot_leads |-> <<>>, risks |-> <<>>,
               smart_actions |-> <<>>]

Init ==
  /\ nodes = <<>>
  /\ edges = <<>>
  /\ interactions = <<>>
  /\ initialized = FALSE
  /\ pc = "idle"
  /\ idx = 0
  /\ today \in ClockDays
  /\ hubspotOn \in BOOLEAN
  /\ linkedinOn \in BOOLEAN
  /\ thrown = "none"
  /\ tracked = 0
  /\ pathQuery = NoQuery
  /\ pathResult = NoPath
  /\ pipeline = <<>>
  /\ analysis = NoAnalysis
  /\ graphData = NoGraphData
  /\ orgChart = NoOrgChart
  /\ calls = NoCalls
  /\ tasks = <<>>

Next ==
  \/ Initialize
  \/ \E f \in Fetches : LoadFromHubSpot(f.contacts, f)
  \/ \E ok \in BOOLEAN : LoadInteractionHistory(ok)
  \/ \E profile \in BOOLEAN : EnrichContact(profile)
  \/ \E response \in PossibleResponses : RelationshipSuggestions(response)
  \/ \E i \in DOMAIN nodes, call \in TrackCalls :
       /\ nodes[i].type = "contact"
       /\ TrackInteraction(nodes[i].id, call.type,
                           [duration |-> call.duration,
                            completed |-> call.completed])
  \/ \E call \in EarlyTrackCalls :
       /\ nodes = <<>>
       /\ TrackInteraction(MC(1), call.type,
                           [duration |-> call.duration,
                            completed |-> call.completed])

Spec == Init /\ [][Next]_vars

----------------------------------------------------------------------------
(* findPath applied to graphs drawn from a bounded set *)

PathContact(n) == <<"hubspot_contact", n>>

PathNodes ==
  [n \in 1..4 |-> Node(PathContact(n), "contact", TitleManager, "influencer",
                       Raw(n))]

PathEdge(a, b, type) ==
  Edge(<<"path", PathContact(a), PathContact(b)>>, PathContact(a),
       PathContact(b), type, 900, TRUE)

\* a chain 1 - 2 - 3 - 4, two links that shorten it and a structural edge
PathEdgeCandidates ==
  { PathEdge(1, 2, FORMER_COLLEAGUE), PathEdge(2, 3, REPORTS_TO),
    PathEdge(3, 4, ALUMNI), PathEdge(3, 1, MANAGES),
    PathEdge(4, 1, MUTUAL_CONNECTION), PathEdge(1, 4, WORKS_AT) }

PathInit ==
  /\ nodes = PathNodes
  /\ edges \in UNION {[1..n -> PathEdgeCandidates] : n \in 0..MaxPathEdges}
  /\ interactions = <<>>
  /\ initialized = TRUE
  /\ pc = "idle"
  /\ idx = 0
  /\ today \in ClockDays
  /\ hubspotOn = TRUE
  /\ linkedinOn = TRUE
  /\ thrown = "none"
  /\ tracked = 0
  /\ pathQuery = NoQuery
  /\ pathResult = NoPath
  /\ pipeline = <<>>
  /\ analysis = NoAnalysis
  /\ graphData = NoGraphData
  /\ orgChart = NoOrgChart
  /\ calls = NoCalls
  /\ tasks = <<>>

\* findPath(sourceId, targetId, maxDepth) is called on the graph and returns
FindPathCall(sourceId, targetId, maxDepth) ==
  /\ pathQuery = NoQuery
  /\ pathQuery' = [source |-> sourceId, target |-> targetId,
                   maxDepth |-> maxDepth]
  /\ pathResult' = FindPath(nodes, edges, sourceId, targetId, maxDepth)
  /\ UNCHANGED <<nodes, edges, interactions, initialized, pc, idx, today,
                 hubspotOn, linkedinOn, thrown, tracked, pipeline,
                 analysis, graphData, orgChart, calls,
                 tasks>>

\* maxDepth is passed, or left out and then 3
PathNext ==
  \E i \in DOMAIN nodes, j \in DOMAIN nodes,
     maxDepth \in (0..MaxDepthArg) \cup {DefaultMaxDepth} :
       FindPathCall(nodes[i].id, nodes[j].id, maxDepth)

PathSpec == PathInit /\ [][PathNext]_vars

----------------------------------------------------------------------------
(* Import of one contact whose job title is drawn from a bounded set *)

\* words job titles are made of
TitleWords ==
  { <<"C", "E", "O">>, <<"C", "T", "O">>, <<"C", "F", "O">>, <<"V", "P">>,
    <<"D", "i", "r", "e", "c", "t", "o", "r">>,
    <<"M", "a", "n", "a", "g", "e", "r">>,
    <<"S", "a", "l", "e", "s">>, <<"o", "f">>,
    <<"E", "n", "g", "i", "n", "e", "e", "r">> }

\* the words of a title joined by single spaces
RECURSIVE JoinWords(_)
JoinWords(ws) ==
  IF ws = <<>> THEN <<>>
  ELSE IF Len(ws) = 1 THEN ws[1]
  ELSE ws[1] \o <<" ">> \o JoinWords(Tail(ws))

\* the job titles the CRM of the title import holds, the empty one included
JobTitles ==
  {JoinWords(ws) : ws \in UNION {[1..n -> TitleWords] : n \in 0..MaxTitleWords}}

\* what the getters resolve to: one contact with the title, associated with
\* the deal of the backend
TitledFetch(title) ==
  [contacts |-> NormalizeContacts(
                  << [id |-> Raw(1), jobtitle |-> title, reports_to |-> None,
                      manager_id |-> None, company |-> Raw(1)] >>),
   deals |-> NormalizeDeals(<<RawDeal>>),
   companies |-> NormalizeCompanies(<<RawCompany>>)]

TitleInit ==
  /\ nodes = <<>>
  /\ edges = <<>>
  /\ interactions = <<>>
  /\ initialized = FALSE
  /\ pc = "idle"
  /\ idx = 0
  /\ today \in ClockDays
  /\ hubspotOn = TRUE
  /\ linkedinOn = FALSE
  /\ thrown = "none"
  /\ tracked = 0
  /\ pathQuery = NoQuery
  /\ pathResult = NoPath
  /\ pipeline = <<>>
  /\ analysis = NoAnalysis
  /\ graphData = NoGraphData
  /\ orgChart = NoOrgChart
  /\ calls = NoCalls
  /\ tasks = <<>>

TitleNext ==
  \/ Initialize
  \/ \E title \in JobTitles :
       LoadFromHubSpot(TitledFetch(title).contacts, TitledFetch(title))
  \/ \E ok \in BOOLEAN : LoadInteractionHistory(ok)

TitleSpec == TitleInit /\ [][TitleNext]_vars

----------------------------------------------------------------------------
(***************************************************************************)
(* Sales orchestrator (SalesOrchestratorService in                         *)
(* CDN/js/meeting-service.js).                                             *)
(* Time stamps are hours, deal values thousands of dollars; scores of      *)
(* calculateUrgencyScore are counted in seventieths (0.5 is 35, a seventh  *)
(* of a day's ghosting penalty is 10).  A deal of the model carries the    *)
(* activities sessionStorage holds for its id.  The telemetry stores hold  *)
(* nothing for the deals of the model.                                     *)
(***************************************************************************)

MaxDeals == 3       \* deals of a pipeline handed to analyze
MaxStageDays == 22  \* oldest stage entry, in days, of a deal of the model

NowHours == 2000    \* the hour new Date() falls in

NoDate == -1        \* a date field that is undefined

\* parseFloat of a text that is no number (NaN); every comparison with it
\* is false and every sum with it is NaN
NaN == -1000000

HoursPerDay == 24

\* this.avgStageDurations[stage], undefined for a stage outside the table
AvgStageDurations(stage) ==
  CASE stage = "new" -> 3
    [] stage = "contacted" -> 5
    [] stage = "qualified" -> 7
    [] stage = "negotiation" -> 14
    [] stage = "proposal" -> 10
    [] stage = "closed" -> 0
    [] OTHER -> 0

\* Math.floor((now - date) / (1000 * 60 * 60 * 24))
WholeDaysSince(date) ==
  IF NowHours >= date
    THEN (NowHours - date) \div HoursPerDay
    ELSE -(((date - NowHours) + HoursPerDay - 1) \div HoursPerDay)

CalculateDaysInStage(deal) ==
  IF deal.stage = "" \/ deal.stage = "closed" THEN 0
  ELSE LET stageEntryDate ==
             IF deal.stageEntryDate # NoDate THEN deal.stageEntryDate
             ELSE IF deal.lastActivity # NoDate THEN deal.lastActivity
             ELSE NowHours
       IN WholeDaysSince(stageEntryDate)

GetDealActivities(deal) == deal.activities

ContactTypes == {"call", "email", "meeting"}

CalculateLastContactDays(deal, activities) ==
  IF activities = <<>>
    THEN IF deal.lastActivity # NoDate THEN WholeDaysSince(deal.lastActivity)
         ELSE 999
    ELSE LET contactDates ==
               { activities[k].date :
                   k \in { j \in DOMAIN activities :
                             /\ activities[j].type \in ContactTypes
                             /\ activities[j].date # NoDate } }
         IN IF contactDates = {} THEN 999
            ELSE WholeDaysSince(CHOOSE d \in contactDates :
                                  \A e \in contactDates : e <= d)

\* telemetryService.getRecentEngagement(deal.id, 24)
GetRecentEngagement(deal) ==
  [emails |-> [opened |-> 0, clicked |-> 0],
   documents |-> [viewed |-> 0],
   calendar |-> [accepted |-> 0, opened |-> 0]]

\* number of activities of one of the types dated within the last 24 hours
RecentCount(activities, types) ==
  Cardinality({ k \in DOMAIN activities :
                  /\ activities[k].type \in types
                  /\ activities[k].date # NoDate
                  /\ activities[k].date >= NowHours - HoursPerDay })

DetectMomentum(deal, activities) ==
  LET telemetryData == GetRecentEngagement(deal)
      recentEmailOpens ==
        IF telemetryData.emails.opened # 0 THEN telemetryData.emails.opened
        ELSE RecentCount(activities, {"email_open"})
      recentEmailClicks ==
        IF telemetryData.emails.clicked # 0 THEN telemetryData.emails.clicked
        ELSE RecentCount(activities, {"email_click"})
      \* no activity of the model carries a link url
      pricingClicks == 0
      proposalOpens ==
        IF telemetryData.documents.viewed # 0
          THEN telemetryData.documents.viewed
          ELSE RecentCount(activities, {"document_view"})
      \* no activity of the model is a calendar_interaction
      meetingAccepted == telemetryData.calendar.accepted > 0
  IN [emailOpens |-> recentEmailOpens,
      emailClicks |-> recentEmailClicks,
      pricingClicks |-> pricingClicks,
      proposalOpens |-> proposalOpens,
      meetingAccepted |-> meetingAccepted,
      hasMomentum |-> \/ recentEmailOpens > 2
                      \/ recentEmailClicks > 0
                      \/ pricingClicks > 1
                      \/ proposalOpens > 0
                      \/ meetingAccepted]

\* avgStageDurations[stage] || 7
AvgOrDefault(stage) ==
  IF AvgStageDurations(stage) # 0 THEN AvgStageDurations(stage) ELSE 7

DetectStallingAtAverage(deal) ==
  LET daysInStage == CalculateDaysInStage(deal)
      avgDuration == AvgOrDefault(deal.stage)
  IN [isStalling |-> daysInStage > avgDuration,
      daysInStage |-> daysInStage,
      avgDuration |-> avgDuration,
      stage |-> deal.stage]

\* threshold = avgDuration * 1.5; days > threshold is 2 * days > 3 * avg
DetectStalling(deal) ==
  LET daysInStage == CalculateDaysInStage(deal)
      avgDuration == AvgOrDefault(deal.stage)
  IN [isStalling |-> 2 * daysInStage > 3 * avgDuration,
      daysInStage |-> daysInStage,
      avgDuration |-> avgDuration,
      stage |-> deal.stage]

Max(a, b) == IF a >= b THEN a ELSE b

DetectGhosting(deal, activities) ==
  LET lastContactDays == CalculateLastContactDays(deal, activities)
  IN [isGhosting |-> lastContactDays > 7 /\ deal.stage # "closed",
      lastContactDays |-> lastContactDays]

\* the score in seventieths, then Math.round and the clamp to 1..10
CalculateUrgencyScore(deal, momentum, stalling, ghosting) ==
  IF deal.probability = NaN THEN NaN ELSE
  LET base == 70 * (1 + (deal.probability \div 10))
      boost == IF momentum.hasMomentum
                 THEN 35 * momentum.emailOpens + 70 * momentum.pricingClicks
                      + 105 * momentum.proposalOpens
                 ELSE 0
      stall == IF stalling.isStalling
                 THEN Min(7 * stalling.daysInStage, 210) ELSE 0
      ghost == IF ghosting.isGhosting
                 THEN Min(10 * ghosting.lastContactDays, 140) ELSE 0
      high == IF deal.value # NaN /\ deal.value > 200 THEN 70 ELSE 0
      score == base + boost + stall + ghost + high
      rounded == (2 * score + 70) \div 140
  IN Min(Max(rounded, 1), 10)

GenerateSmartActions(deal, activities, momentum, stalling, ghosting) ==
  LET primaryContact ==
        IF deal.contacts # <<>> THEN deal.contacts[1] ELSE "the team"
      Action(type, rationale) ==
        [action_type |-> type, target_name |-> primaryContact,
         rationale |-> rationale]
      hot ==
        IF ~momentum.hasMomentum THEN <<>>
        ELSE IF momentum.proposalOpens > 0
          THEN <<Action("EMAIL", "proposal_opened")>>
        ELSE IF momentum.pricingClicks > 0
          THEN <<Action("EMAIL", "pricing_viewed")>>
        ELSE IF momentum.emailOpens > 2
          THEN <<Action("CALL", "email_engagement")>>
        ELSE <<>>
      ghost ==
        IF ~ghosting.isGhosting THEN <<>>
        ELSE <<Action("EMAIL", "break_up")>>
             \o (IF deal.probability # NaN /\ deal.probability > 50
                   THEN <<Action("LINKEDIN", "going_cold")>> ELSE <<>>)
      stall ==
        IF stalling.isStalling THEN <<Action("CALL", "unblock")>> ELSE <<>>
      signals == hot \o ghost \o stall
      actions ==
        IF signals = <<>> /\ deal.stage # "closed"
             /\ CalculateLastContactDays(deal, activities) > 3
          THEN <<Action("EMAIL", "follow_up")>>
          ELSE signals
  IN SubSeq(actions, 1, Min(Len(actions), 3))

\* what the loop of analyze pushes to hotLeads for one deal
HotLeadsOf(deal) ==
  LET activities == GetDealActivities(deal)
      momentum == DetectMomentum(deal, activities)
      stalling == DetectStalling(deal)
      ghosting == DetectGhosting(deal, activities)
      signalReason ==
        IF momentum.proposalOpens > 0 THEN "proposal_opened"
        ELSE IF momentum.pricingClicks > 0 THEN "pricing_clicked"
        ELSE IF momentum.emailOpens > 2 THEN "emails_opened"
        ELSE ""
  IN IF momentum.hasMomentum /\ signalReason # ""
       THEN << [deal_id |-> deal.id,
                signal_reason |-> signalReason,
                urgency_score |->
                  CalculateUrgencyScore(deal, momentum, stalling, ghosting)] >>
       ELSE <<>>

\* what the loop of analyze pushes to risks for one deal
RisksOf(deal) ==
  LET activities == GetDealActivities(deal)
      stalling == DetectStalling(deal)
      ghosting == DetectGhosting(deal, activities)
  IN (IF stalling.isStalling
        THEN << [deal_id |-> deal.id,
                 issue |-> "stalling",
                 days |-> stalling.daysInStage,
                 suggested_fix |-> IF stalling.daysInStage > 20
                                     THEN "break_up_or_close"
                                     ELSE "call_for_blockers"] >>
        ELSE <<>>)
     \o
     (IF ghosting.isGhosting
        THEN << [deal_id |-> deal.id,
                 issue |-> "ghosting",
                 days |-> ghosting.lastContactDays,
                 suggested_fix |-> IF ghosting.lastContactDays > 14
                                     THEN "break_up"
                                     ELSE "reach_out"] >>
        ELSE <<>>)

\* what the loop of analyze pushes to smartActions for one deal
SmartActionsOf(deal) ==
  LET activities == GetDealActivities(deal)
  IN GenerateSmartActions(deal, activities,
                          DetectMomentum(deal, activities),
                          DetectStalling(deal),
                          DetectGhosting(deal, activities))

\* the list left as it was pushed
KeepOrder(keyed) == keyed

\* Array.prototype.sort with the comparator (a, b) => key(b) - key(a),
\* applied to pairs <<key, item>>: descending by key, equal keys keep
\* their order
RECURSIVE SortDescending(_)
SortDescending(keyed) ==
  IF keyed = <<>> THEN <<>>
  ELSE LET x == Head(keyed)
           rest == SortDescending(Tail(keyed))
           ahead == Cardinality({ k \in DOMAIN rest : rest[k][1] > x[1] })
       IN SubSeq(rest, 1, ahead) \o <<x>> \o SubSeq(rest, ahead + 1, Len(rest))

\* activeDeals.find(d => d.id === id)?.value || 0
ValueOfDeal(activeDeals, id) ==
  LET hits == { k \in DOMAIN activeDeals : activeDeals[k].id = id }
  IN IF hits = {} \/ activeDeals[First(hits)].value = NaN THEN 0
     ELSE activeDeals[First(hits)].value

\* array.slice(0, 5)
TopFive(list) == SubSeq(list, 1, Min(Len(list), 5))

\* the value analyze() resolves to for the deals getPipeline() resolved to
AnalysisOf(deals) ==
  LET activeDeals == SelectSeq(deals, LAMBDA d : d.stage # "closed")
      hotLeads == Flatten([k \in DOMAIN activeDeals |-> HotLeadsOf(activeDeals[k])])
      risks == Flatten([k \in DOMAIN activeDeals |-> RisksOf(activeDeals[k])])
      smartActions ==
        Flatten([k \in DOMAIN activeDeals |-> SmartActionsOf(activeDeals[k])])
      sortedLeads ==
        SortDescending([k \in DOMAIN hotLeads |->
                          <<hotLeads[k].urgency_score, hotLeads[k]>>])
      sortedRisks ==
        SortDescending([k \in DOMAIN risks |->
                          <<ValueOfDeal(activeDeals, risks[k].deal_id), risks[k]>>])
  IN [called |-> TRUE,
      hot_leads |-> TopFive([k \in DOMAIN sortedLeads |-> sortedLeads[k][2]]),
      risks |-> TopFive([k \in DOMAIN sortedRisks |-> sortedRisks[k][2]]),
      smart_actions |-> TopFive(smartActions)]

\* analyze(): getPipeline() resolves to the deals the pipeline holds
Analyze ==
  /\ analysis' = AnalysisOf(pipeline)
  /\ UNCHANGED <<nodes, edges, interactions, initialized, pc, idx, today,
                 hubspotOn, linkedinOn, thrown, tracked, pathQuery,
                 pathResult, pipeline, graphData, orgChart, calls,
                 tasks>>

(***************************************************************************)
(* analyze applied to pipelines drawn from a bounded set *)
(***************************************************************************)

\* a deal as getPipeline() maps it from a CRM deal: no metadata, no contacts
PipelineDeal(stage, value, probability, age, activities) ==
  [id |-> <<"hubspot_deal", 0>>, stage |-> stage, value |-> value,
   probability |-> probability, lastActivity |-> NowHours - age,
   stageEntryDate |-> NoDate, contacts |-> <<>>, activities |-> activities]

ProposalViewed == << [type |-> "document_view", date |-> NowHours - 2] >>

CalledTwoDaysAgo == << [type |-> "call", date |-> NowHours - 48] >>

\* Qualified deals worth $50k or $500k, untouched for 2, 8 or 12 days, one
\* whose proposal was just opened, one called two days ago, one closed deal.
RankingDeals ==
  { PipelineDeal("qualified", v, IF v > 200 THEN 60 ELSE 40,
                 HoursPerDay * a, <<>>) : v \in {50, 500}, a \in {2, 8, 12} }
  \cup { PipelineDeal("qualified", 500, 60, HoursPerDay * 12, ProposalViewed),
         PipelineDeal("qualified", 50, 40, HoursPerDay * 2, CalledTwoDaysAgo),
         PipelineDeal("closed", 500, 100, HoursPerDay * 12, <<>>) }

\* deal ids are the CRM's record ids: the k-th deal of a pipeline has id k
Numbered(deals) ==
  [k \in DOMAIN deals |-> [deals[k] EXCEPT !.id = <<"hubspot_deal", k>>]]

RECURSIVE DealLists(_)
DealLists(n) ==
  IF n = 0 THEN {<<>>}
  ELSE LET shorter == DealLists(n - 1)
       IN shorter \cup { Append(l, d) : l \in { s \in shorter : Len(s) = n - 1 },
                                        d \in RankingDeals }

RankingPipelines == { Numbered(l) : l \in DealLists(MaxDeals) }

TableStages == {"new", "contacted", "qualified", "proposal", "negotiation"}

\* one open deal per stage of the table and per age up to MaxStageDays days,
\* at the start and in the last hour of the day
StagePipelines ==
  { Numbered(<< PipelineDeal(stage, 100, 50, HoursPerDay * d + r, <<>>) >>) :
      stage \in TableStages, d \in 0..MaxStageDays, r \in {0, 23} }

EmailClicked == << [type |-> "email_click", date |-> NowHours - 2] >>

\* one open deal as the CRM normalizer yields it: the probability is
\* parseFloat of the pipeline property (its id, a text, or 0 when missing),
\* the value parseFloat of the amount; untouched for 2 or 12 days
NormalizerPipelines ==
  { Numbered(<< PipelineDeal("qualified", v, p, HoursPerDay * a, act) >>) :
      v \in {NaN, 0, 500}, p \in {NaN, 0, 60}, a \in {2, 12},
      act \in {<<>>, ProposalViewed, EmailClicked, CalledTwoDaysAgo} }

Pipelines == RankingPipelines \cup StagePipelines \cup NormalizerPipelines

PipelineInit ==
  /\ nodes = <<>>
  /\ edges = <<>>
  /\ interactions = <<>>
  /\ initialized = FALSE
  /\ pc = "idle"
  /\ idx = 0
  /\ today \in ClockDays
  /\ hubspotOn = TRUE
  /\ linkedinOn = FALSE
  /\ thrown = "none"
  /\ tracked = 0
  /\ pathQuery = NoQuery
  /\ pathResult = NoPath
  /\ pipeline \in Pipelines
  /\ analysis = NoAnalysis
  /\ graphData = NoGraphData
  /\ orgChart = NoOrgChart
  /\ calls = NoCalls
  /\ tasks = <<>>

PipelineNext == Analyze

PipelineSpec == PipelineInit /\ [][PipelineNext]_vars

----------------------------------------------------------------------------
(***************************************************************************)
(* GraphService.getGraphData.  An absent filter field is None (ids) or 0   *)
(* (minInfluence); both are falsy in the code's tests.                     *)
(***************************************************************************)

DealWord == <<"d", "e", "a", "l">>

\* the nodes and edges left by the accountId filter
FilterByAccount(g, accountId) ==
  LET accountContacts ==
        { g.edges[j].source :
            j \in { k \in DOMAIN g.edges :
                      /\ g.edges[k].target = accountId
                      /\ g.edges[k].type = WORKS_AT } }
  IN [nodes |-> SelectSeq(g.nodes, LAMBDA n :
                   n.id \in accountContacts \/ n.id = accountId),
      edges |-> SelectSeq(g.edges, LAMBDA e :
                   \/ e.source \in accountContacts
                   \/ e.target \in accountContacts
                   \/ e.source = accountId
                   \/ e.target = accountId)]

\* the nodes and edges left by the dealId filter
FilterByDeal(g, dealId) ==
  LET dealContacts ==
        { g.edges[j].source :
            j \in { k \in DOMAIN g.edges :
                      /\ g.edges[k].target = dealId
                      /\ Includes(g.edges[k].type, DealWord) } }
  IN [nodes |-> SelectSeq(g.nodes, LAMBDA n :
                   n.id \in dealContacts \/ n.id = dealId),
      edges |-> SelectSeq(g.edges, LAMBDA e :
                   \/ e.source \in dealContacts
                   \/ e.target \in dealContacts
                   \/ e.source = dealId
                   \/ e.target = dealId)]

\* the nodes and edges left by the minInfluence filter
FilterByInfluence(g, minInfluence) ==
  LET kept == SelectSeq(g.nodes, LAMBDA n :
                 n.type # "contact" \/ n.influenceScore >= minInfluence)
      nodeIds == { kept[i].id : i \in DOMAIN kept }
  IN [nodes |-> kept,
      edges |-> SelectSeq(g.edges, LAMBDA e :
                   e.source \in nodeIds /\ e.target \in nodeIds)]

GetGraphData(filter) ==
  LET all == [nodes |-> nodes, edges |-> edges]
      byAccount == IF filter.accountId # None
                     THEN FilterByAccount(all, filter.accountId) ELSE all
      byDeal == IF filter.dealId # None
                  THEN FilterByDeal(byAccount, filter.dealId) ELSE byAccount
  IN IF filter.minInfluence # 0
       THEN FilterByInfluence(byDeal, filter.minInfluence) ELSE byDeal

\* the filters the graph page can build from the graph it shows: an account
\* and a deal of the graph, each or none, and a score threshold or none
Filters ==
  { [accountId |-> a, dealId |-> d, minInfluence |-> s] :
      a \in {None} \cup { nodes[i].id : i \in { k \in DOMAIN nodes :
                                                  nodes[k].type = "account" } },
      d \in {None} \cup { nodes[i].id : i \in { k \in DOMAIN nodes :
                                                  nodes[k].type = "deal" } },
      s \in {0, 50} }

\* one getGraphData call of the session
GetGraphDataCall(filter) ==
  /\ ~graphData.called
  /\ graphData' = [called |-> TRUE, filter |-> filter,
                   nodes |-> GetGraphData(filter).nodes,
                   edges |-> GetGraphData(filter).edges]
  /\ UNCHANGED <<nodes, edges, interactions, initialized, pc, idx, today,
                 hubspotOn, linkedinOn, thrown, tracked, pathQuery,
                 pathResult, pipeline, analysis, orgChart, calls,
                 tasks>>

ViewInit ==
  /\ nodes = <<>>
  /\ edges = <<>>
  /\ interactions = <<>>
  /\ initialized = FALSE
  /\ pc = "idle"
  /\ idx = 0
  /\ today \in ClockDays
  /\ hubspotOn \in BOOLEAN
  /\ linkedinOn = FALSE
  /\ thrown = "none"
  /\ tracked = 0
  /\ pathQuery = NoQuery
  /\ pathResult = NoPath
  /\ pipeline = <<>>
  /\ analysis = NoAnalysis
  /\ graphData = NoGraphData
  /\ orgChart = NoOrgChart
  /\ calls = NoCalls
  /\ tasks = <<>>

ViewNext ==
  \/ Initialize
  \/ \E f \in Fetches : LoadFromHubSpot(f.contacts, f)
  \/ \E ok \in BOOLEAN : LoadInteractionHistory(ok)
  \/ \E filter \in Filters : GetGraphDataCall(filter)

ViewSpec == ViewInit /\ [][ViewNext]_vars

----------------------------------------------------------------------------
(***************************************************************************)
(* GraphService.getOrgChart.  The hierarchy object is a function from      *)
(* contact ids to entries, keys lists its keys in insertion order.  The    *)
(* recursion of calculateLevels is one step per invocation: current is     *)
(* the argument, depth the number of invocations waiting for it.           *)
(***************************************************************************)

MaxOrgEdges == 3    \* reporting edges of a graph handed to getOrgChart

GetAccountContacts(accountId) ==
  LET contactIds == { edges[j].source :
                        j \in { k \in DOMAIN edges :
                                  /\ edges[k].target = accountId
                                  /\ edges[k].type = WORKS_AT } }
  IN SelectSeq(nodes, LAMBDA n : n.id \in contactIds)

\* the edges getOrgChart selects for the contacts
OrgEdges(contacts) ==
  LET ids == { contacts[i].id : i \in DOMAIN contacts }
  IN SelectSeq(edges, LAMBDA e :
       /\ e.source \in ids \/ e.target \in ids
       /\ e.type = REPORTS_TO \/ e.type = MANAGES)

\* array.includes(x) || array.push(x)
PushIfAbsent(list, x) ==
  IF \E k \in DOMAIN list : list[k] = x THEN list ELSE Append(list, x)

\* variant: only reports_to edges are applied
LinkEdgeReportsOnly(h, edge) ==
  IF edge.type # REPORTS_TO THEN [thrown |-> FALSE, hierarchy |-> h]
  ELSE IF edge.source \notin DOMAIN h \/ edge.target \notin DOMAIN h
    THEN [thrown |-> TRUE, hierarchy |-> h]
  ELSE [thrown |-> FALSE,
        hierarchy |->
          [h EXCEPT ![edge.source].reportsTo = edge.target,
                    ![edge.target].manages = PushIfAbsent(@, edge.source)]]

\* the body of orgEdges.forEach for one edge; reading a field of
\* hierarchy[id] for an id that is not a key raises a TypeError
LinkEdge(h, edge) ==
  IF edge.type = REPORTS_TO
    THEN IF edge.source \notin DOMAIN h \/ edge.target \notin DOMAIN h
           THEN [thrown |-> TRUE, hierarchy |-> h]
           ELSE LET h1 == [h EXCEPT ![edge.source].reportsTo = edge.target]
                IN [thrown |-> FALSE,
                    hierarchy |->
                      [h1 EXCEPT ![edge.target].manages =
                                   PushIfAbsent(@, edge.source)]]
  ELSE IF edge.type = MANAGES
    THEN IF edge.source \notin DOMAIN h \/ edge.target \notin DOMAIN h
           THEN [thrown |-> TRUE, hierarchy |-> h]
           ELSE LET h1 == [h EXCEPT ![edge.source].manages =
                                      PushIfAbsent(@, edge.target)]
                IN [thrown |-> FALSE,
                    hierarchy |->
                      [h1 EXCEPT ![edge.target].reportsTo = edge.source]]
  ELSE [thrown |-> FALSE, hierarchy |-> h]

\* orgEdges.forEach, stopped by the first error
RECURSIVE LinkEdges(_, _)
LinkEdges(h, orgEdges) ==
  IF orgEdges = <<>> THEN [thrown |-> FALSE, hierarchy |-> h]
  ELSE LET linked == LinkEdge(h, Head(orgEdges))
       IN IF linked.thrown THEN linked
          ELSE LinkEdges(linked.hierarchy, Tail(orgEdges))

\* variant: the visited set is left as it is
ForgetVisited(visited, contactId) == visited

\* visited.add(contactId)
AddVisited(visited, contactId) == visited \cup {contactId}

\* getOrgChart(accountId) up to the first calculateLevels call
GetOrgChart(accountId) ==
  /\ orgChart.pc = "idle"
  /\ LET contacts == GetAccountContacts(accountId)
         keys == [i \in DOMAIN contacts |-> contacts[i].id]
         empty == [id \in { keys[i] : i \in DOMAIN keys } |->
                     [reportsTo |-> None, manages |-> <<>>, level |-> 0]]
         linked == LinkEdges(empty, OrgEdges(contacts))
     IN orgChart' =
          [pc |-> IF linked.thrown THEN "thrown"
                  ELSE IF keys = <<>> THEN "done" ELSE "levels",
           accountId |-> accountId,
           keys |-> keys,
           hierarchy |-> linked.hierarchy,
           cursor |-> IF linked.thrown \/ keys = <<>> THEN 0 ELSE 1,
           current |-> IF linked.thrown \/ keys = <<>> THEN None ELSE keys[1],
           visited |-> {},
           depth |-> 0]
  /\ UNCHANGED <<nodes, edges, interactions, initialized, pc, idx, today,
                 hubspotOn, linkedinOn, thrown, tracked, pathQuery,
                 pathResult, pipeline, analysis, graphData, calls,
                 tasks>>

\* the pending calculateLevels(keys[cursor]) returned: its level is stored
\* and the forEach over Object.keys(hierarchy) moves on
LevelFound(level) ==
  LET more == orgChart.cursor < Len(orgChart.keys)
  IN [orgChart EXCEPT
        !.hierarchy[orgChart.keys[orgChart.cursor]].level = level,
        !.pc = IF more THEN "levels" ELSE "done",
        !.cursor = IF more THEN @ + 1 ELSE 0,
        !.current = IF more THEN orgChart.keys[orgChart.cursor + 1] ELSE None,
        !.visited = {},
        !.depth = 0]

\* one invocation of calculateLevels(current, visited); each of the depth
\* invocations waiting for it adds 1 to what it returns
CalculateLevels ==
  /\ orgChart.pc = "levels"
  /\ orgChart' =
       IF orgChart.current \in orgChart.visited
         THEN LevelFound(orgChart.depth)
       ELSE IF orgChart.hierarchy[orgChart.current].reportsTo = None
         THEN LevelFound(orgChart.depth)
       ELSE [orgChart EXCEPT
               !.visited = AddVisited(@, orgChart.current),
               !.current = orgChart.hierarchy[orgChart.current].reportsTo,
               !.depth = @ + 1]
  /\ UNCHANGED <<nodes, edges, interactions, initialized, pc, idx, today,
                 hubspotOn, linkedinOn, thrown, tracked, pathQuery,
                 pathResult, pipeline, analysis, graphData, calls,
                 tasks>>

(***************************************************************************)
(* getOrgChart applied to reporting graphs drawn from a bounded set *)
(***************************************************************************)

\* three contacts of account 1 and one contact of account 2
OrgNodes ==
  [n \in 1..4 |-> Node(MC(n), "contact", TitleManager, "influencer", None)]
  \o << Node(MA(1), "account", NoTitle, "", None),
        Node(MA(2), "account", NoTitle, "", None) >>

OrgWorksAt ==
  << Edge(ME(1), MC(1), MA(1), WORKS_AT, 1000, TRUE),
     Edge(ME(2), MC(2), MA(1), WORKS_AT, 1000, TRUE),
     Edge(ME(3), MC(3), MA(1), WORKS_AT, 1000, TRUE),
     Edge(ME(4), MC(4), MA(2), WORKS_AT, 1000, TRUE) >>

OrgEdge(a, b, type) ==
  Edge(<<"org", MC(a), MC(b)>>, MC(a), MC(b), type, 900, TRUE)

\* a chain 3 -> 2 -> 1, the edge that closes it to a cycle, a self-loop, a
\* second manager for 2, the edge that makes 1 and 2 report to each other,
\* and two edges that leave the account
OrgEdgeCandidates ==
  { OrgEdge(2, 1, REPORTS_TO), OrgEdge(3, 2, REPORTS_TO),
    OrgEdge(1, 3, REPORTS_TO), OrgEdge(1, 1, REPORTS_TO),
    OrgEdge(3, 2, MANAGES), OrgEdge(2, 1, MANAGES),
    OrgEdge(3, 4, REPORTS_TO), OrgEdge(4, 1, MANAGES) }

OrgInit ==
  /\ nodes = OrgNodes
  /\ edges \in { OrgWorksAt \o es :
                   es \in UNION {[1..n -> OrgEdgeCandidates] :
                                   n \in 0..MaxOrgEdges} }
  /\ interactions = <<>>
  /\ initialized = TRUE
  /\ pc = "idle"
  /\ idx = 0
  /\ today \in ClockDays
  /\ hubspotOn = TRUE
  /\ linkedinOn = FALSE
  /\ thrown = "none"
  /\ tracked = 0
  /\ pathQuery = NoQuery
  /\ pathResult = NoPath
  /\ pipeline = <<>>
  /\ analysis = NoAnalysis
  /\ graphData = NoGraphData
  /\ orgChart = NoOrgChart
  /\ calls = NoCalls
  /\ tasks = <<>>

OrgNext ==
  \/ \E accountId \in {MA(1), MA(2)} : GetOrgChart(accountId)
  \/ CalculateLevels

OrgSpec == OrgInit /\ [][OrgNext]_vars

\* getOrgChart is synchronous: once called it runs on until it returns
OrgLiveSpec == OrgSpec /\ WF_vars(CalculateLevels)

----------------------------------------------------------------------------
(***************************************************************************)
(* Two initialize() calls on one store.  Each call has its own position    *)
(* and locals in calls[p].  The loops of loadInteractionHistory and        *)
(* enrichWithLinkedIn walk the node objects that this.nodes held when the  *)
(* loop began; when the other call's loadFromHubSpot assigns a new array   *)
(* to this.nodes, the walking call keeps the old objects (detached,        *)
(* contacts) and what it writes to them no longer shows in the store.      *)
(***************************************************************************)

\* the fields a step of a call may change
OverlapStore ==
  [nodes |-> nodes, edges |-> edges, interactions |-> interactions,
   initialized |-> initialized, calls |-> calls]

OverlapApply(o) ==
  /\ nodes' = o.nodes
  /\ edges' = o.edges
  /\ interactions' = o.interactions
  /\ initialized' = o.initialized
  /\ calls' = o.calls
  /\ UNCHANGED <<pc, idx, today, hubspotOn, linkedinOn, thrown, tracked,
                 pathQuery, pathResult, pipeline, analysis, graphData,
                 orgChart, tasks>>

\* the node objects the loop of call p walks
Walked(o, p) == IF o.calls[p].detached THEN o.calls[p].contacts ELSE o.nodes

\* the end of initialize: calculateInfluenceScores(); initialized = true
OverlapFinish(o, p) ==
  [o EXCEPT !.nodes = CalculateInfluenceScores(o.nodes, o.edges,
                                               o.interactions, today),
            !.initialized = TRUE,
            !.calls[p].pc = "returned",
            !.calls[p].idx = 0,
            !.calls[p].detached = FALSE,
            !.calls[p].contacts = <<>>]

\* enrichWithLinkedIn of call p from its k-th contact on, up to the next await
OverlapEnrichFrom(o, p, k) ==
  IF k > Len(ContactIdxs(Walked(o, p))) THEN OverlapFinish(o, p)
  ELSE [o EXCEPT !.calls[p].pc = "enrich", !.calls[p].idx = k]

\* back in initialize after loadFromHubSpot has resolved; enrichWithLinkedIn
\* takes its contacts from this.nodes as it is then
OverlapAfterLoad(o, p) ==
  IF linkedinOn
    THEN OverlapEnrichFrom([o EXCEPT !.calls[p].detached = FALSE,
                                     !.calls[p].contacts = <<>>], p, 1)
    ELSE OverlapFinish(o, p)

\* loadInteractionHistory of call p from its k-th contact on
OverlapHistoryFrom(o, p, k) ==
  LET list == Walked(o, p)
      cs == ContactIdxs(list)
      waiting == {j \in k..Len(cs) : list[cs[j]].hubspotId # None}
  IN IF waiting = {} THEN OverlapAfterLoad(o, p)
     ELSE [o EXCEPT !.calls[p].pc = "history",
                    !.calls[p].idx = CHOOSE j \in waiting :
                                       \A w \in waiting : j <= w]

\* call p of initialize() is made
OverlapInitialize(p) ==
  /\ calls[p].pc = "new"
  /\ IF initialized
       THEN OverlapApply([OverlapStore EXCEPT !.calls[p].pc = "returned"])
     ELSE IF hubspotOn
       THEN OverlapApply([OverlapStore EXCEPT !.calls[p].pc = "fetch"])
     ELSE OverlapApply(
            OverlapFinish(
              [OverlapStore EXCEPT
                 !.nodes = MockNodes, !.edges = MockEdges,
                 !.interactions = MockInteractions], p))

\* whether call p is inside one of the loops over this.nodes
InLoop(p) == calls[p].pc \in {"history", "enrich", "suggest"}

\* loadFromHubSpot of call p resumes with the three fetched lists
OverlapLoadFromHubSpot(p, fetch) ==
  /\ calls[p].pc = "fetch"
  /\ LET q == 3 - p
         kept == IF InLoop(q) /\ ~calls[q].detached
                   THEN [calls EXCEPT ![q].detached = TRUE,
                                      ![q].contacts = nodes]
                   ELSE calls
     IN OverlapApply(OverlapHistoryFrom(
          [OverlapStore EXCEPT
             !.nodes = LoadFromHubSpotNodes(fetch.contacts, fetch.deals,
                                            fetch.companies),
             !.edges = LoadFromHubSpotEdges(fetch.contacts, fetch.deals,
                                            fetch.companies),
             !.calls = kept],
          p, 1))

\* loadInteractionHistory of call p resumes with one contact's activities
OverlapLoadInteractionHistory(p, ok) ==
  /\ calls[p].pc = "history"
  /\ LET list == Walked(OverlapStore, p)
         contact == list[ContactIdxs(list)[calls[p].idx]]
         found == IF ok
                    THEN NormalizeInteractions(CrmInteractions(contact.hubspotId))
                    ELSE <<>>
         added == [i \in DOMAIN found |->
                     Interaction(found[i].id, contact.id, found[i].type,
                                 found[i].date, found[i].duration, "unset")]
     IN OverlapApply(OverlapHistoryFrom(
          [OverlapStore EXCEPT !.interactions = interactions \o added],
          p, calls[p].idx + 1))

\* enrichWithLinkedIn of call p resumes from enrichContact
OverlapEnrichContact(p, profile) ==
  /\ calls[p].pc = "enrich"
  /\ LET list == Walked(OverlapStore, p)
         ci == ContactIdxs(list)[calls[p].idx]
         enriched == IF profile THEN MergeLinkedInData(list[ci]) ELSE list[ci]
         o == IF calls[p].detached
                THEN [OverlapStore EXCEPT !.calls[p].contacts[ci] = enriched]
                ELSE [OverlapStore EXCEPT !.nodes[ci] = enriched]
     IN /\ profile => HasProfile(list[ci])
        /\ IF enriched.verified
             THEN OverlapApply([o EXCEPT !.calls[p].pc = "suggest"])
             ELSE OverlapApply(OverlapEnrichFrom(o, p, calls[p].idx + 1))

\* variant: every suggestion is pushed, whatever edges exist
RECURSIVE AddSuggestionsUnchecked(_, _)
AddSuggestionsUnchecked(es, suggestions) ==
  IF suggestions = <<>> THEN es
  ELSE AddSuggestionsUnchecked(
         Append(es, Edge(<<"linkedin", Head(suggestions).source,
                           Head(suggestions).target>>,
                         Head(suggestions).source, Head(suggestions).target,
                         Head(suggestions).type, Head(suggestions).strength,
                         FALSE)),
         Tail(suggestions))

\* the loop over the suggestions of one contact: each existence check and
\* push runs without an await, on this.edges as it is then
PushSuggestions(es, suggestions) == AddSuggestions(es, suggestions)

\* enrichWithLinkedIn of call p resumes from getRelationshipSuggestions
OverlapRelationshipSuggestions(p, response) ==
  /\ calls[p].pc = "suggest"
  /\ LET list == Walked(OverlapStore, p)
         cs == ContactIdxs(list)
         contact == list[cs[calls[p].idx]]
         others == {list[cs[j]].id : j \in DOMAIN cs} \ {contact.id}
     IN /\ response \in RelationshipResponses(contact.id, others)
        /\ OverlapApply(OverlapEnrichFrom(
             [OverlapStore EXCEPT
                !.edges = PushSuggestions(edges, NormalizeRelationships(response)),
                !.calls[p].suggestions = NormalizeRelationships(response)],
             p, calls[p].idx + 1))

\* what the CRM answers to either call: Alice and Bob, or nothing and the
\* getters fall back to their mock lists
OverlapFetches ==
  { [contacts |-> GetMockContacts, deals |-> GetMockDeals,
     companies |-> GetMockCompanies],
    [contacts |-> NormalizeContacts(<<RawContacts[1], RawContacts[2]>>),
     deals |-> NormalizeDeals(<<RawDeal>>),
     companies |-> NormalizeCompanies(<<RawCompany>>)] }

OverlapInit ==
  /\ nodes = <<>>
  /\ edges = <<>>
  /\ interactions = <<>>
  /\ initialized = FALSE
  /\ pc = "idle"
  /\ idx = 0
  /\ today \in ClockDays
  /\ hubspotOn = TRUE
  /\ linkedinOn \in BOOLEAN
  /\ thrown = "none"
  /\ tracked = 0
  /\ pathQuery = NoQuery
  /\ pathResult = NoPath
  /\ pipeline = <<>>
  /\ analysis = NoAnalysis
  /\ graphData = NoGraphData
  /\ orgChart = NoOrgChart
  /\ calls = NoCalls
  /\ tasks = <<>>

OverlapNext ==
  \E p \in 1..2 :
    \/ OverlapInitialize(p)
    \/ \E fetch \in OverlapFetches : OverlapLoadFromHubSpot(p, fetch)
    \/ \E ok \in BOOLEAN : OverlapLoadInteractionHistory(p, ok)
    \/ \E profile \in BOOLEAN : OverlapEnrichContact(p, profile)
    \/ \E response \in PossibleResponses :
         OverlapRelationshipSuggestions(p, response)

OverlapSpec == OverlapInit /\ [][OverlapNext]_vars

----------------------------------------------------------------------------
(***************************************************************************)
(* Task service (TodoService in CDN/js/todo-service.js).  A field of       *)
(* taskData or updates that is undefined is "unset"; completedAt is "set"  *)
(* or "null".  Task ids are numbered in the order of creation.             *)
(***************************************************************************)

MaxTasks == 3       \* tasks created in a session

TaskStates == {"not_started", "in_progress", "done"}

\* the state and completed fields a caller passes, or leaves out
TaskFields ==
  [state : TaskStates \cup {"unset"}, completed : {"unset", "true", "false"}]

CreateTask(taskData) ==
  /\ Len(tasks) < MaxTasks
  /\ LET state == IF taskData.state # "unset" THEN taskData.state
                  ELSE "not_started"
         completed == taskData.completed = "true"
         task == [id |-> <<"task", Len(tasks) + 1>>, state |-> state,
                  completed |-> completed, completedAt |-> "null"]
         synced == IF task.state = "done"
                     THEN [task EXCEPT !.completed = TRUE, !.completedAt = "set"]
                   ELSE IF task.completed
                     THEN [task EXCEPT !.state = "done"]
                   ELSE task
     IN tasks' = Append(tasks, synced)
  /\ UNCHANGED <<nodes, edges, interactions, initialized, pc, idx, today,
                 hubspotOn, linkedinOn, thrown, tracked, pathQuery,
                 pathResult, pipeline, analysis, graphData, orgChart, calls>>

\* the task after updateTask(task.id, updates)
Updated(task, updates) ==
  LET assigned ==
        [task EXCEPT
           !.state = IF updates.state # "unset" THEN updates.state ELSE @,
           !.completed = IF updates.completed # "unset"
                           THEN updates.completed = "true" ELSE @]
      byState ==
        IF updates.state = "unset" THEN assigned
        ELSE IF updates.state = "done"
          THEN [assigned EXCEPT !.completed = TRUE, !.completedAt = "set"]
        ELSE [assigned EXCEPT !.completed = FALSE, !.completedAt = "null"]
      marked ==
        IF updates.completed = "true" /\ ~byState.completed
          THEN [byState EXCEPT !.state = "done", !.completedAt = "set"]
          ELSE byState
  IN IF updates.completed = "false" /\ marked.completed
       THEN [marked EXCEPT !.state = "not_started", !.completedAt = "null"]
       ELSE marked

\* this.tasks after updateTask(taskId, updates); an unknown id changes nothing
TasksUpdated(taskId, updates) ==
  LET hits == { k \in DOMAIN tasks : tasks[k].id = taskId }
  IN IF hits = {} THEN tasks
     ELSE [tasks EXCEPT ![First(hits)] = Updated(@, updates)]

UpdateTask(taskId, updates) ==
  /\ tasks' = TasksUpdated(taskId, updates)
  /\ UNCHANGED <<nodes, edges, interactions, initialized, pc, idx, today,
                 hubspotOn, linkedinOn, thrown, tracked, pathQuery,
                 pathResult, pipeline, analysis, graphData, orgChart, calls>>

\* not_started -> in_progress -> done -> not_started
NextState(state) ==
  IF state = "not_started" THEN "in_progress"
  ELSE IF state = "in_progress" THEN "done"
  ELSE "not_started"

ToggleTask(taskId) ==
  /\ \E k \in DOMAIN tasks : tasks[k].id = taskId
  /\ LET task == tasks[First({ k \in DOMAIN tasks : tasks[k].id = taskId })]
         newState == NextState(task.state)
     IN tasks' = TasksUpdated(taskId,
                   [state |-> newState,
                    completed |-> IF newState = "done" THEN "true" ELSE "false"])
  /\ UNCHANGED <<nodes, edges, interactions, initialized, pc, idx, today,
                 hubspotOn, linkedinOn, thrown, tracked, pathQuery,
                 pathResult, pipeline, analysis, graphData, orgChart, calls>>

MoveTaskToState(taskId, state) ==
  /\ tasks' = TasksUpdated(taskId,
                [state |-> state,
                 completed |-> IF state = "done" THEN "true" ELSE "false"])
  /\ UNCHANGED <<nodes, edges, interactions, initialized, pc, idx, today,
                 hubspotOn, linkedinOn, thrown, tracked, pathQuery,
                 pathResult, pipeline, analysis, graphData, orgChart, calls>>

TodoInit ==
  /\ nodes = <<>>
  /\ edges = <<>>
  /\ interactions = <<>>
  /\ initialized = FALSE
  /\ pc = "idle"
  /\ idx = 0
  /\ today \in ClockDays
  /\ hubspotOn = FALSE
  /\ linkedinOn = FALSE
  /\ thrown = "none"
  /\ tracked = 0
  /\ pathQuery = NoQuery
  /\ pathResult = NoPath
  /\ pipeline = <<>>
  /\ analysis = NoAnalysis
  /\ graphData = NoGraphData
  /\ orgChart = NoOrgChart
  /\ calls = NoCalls
  /\ tasks = <<>>

TodoNext ==
  \/ \E taskData \in TaskFields : CreateTask(taskData)
  \/ \E k \in DOMAIN tasks, updates \in TaskFields :
       UpdateTask(tasks[k].id, updates)
  \/ \E k \in DOMAIN tasks : ToggleTask(tasks[k].id)
  \/ \E k \in DOMAIN tasks, state \in TaskStates :
       MoveTaskToState(tasks[k].id, state)

TodoSpec == TodoInit /\ [][TodoNext]_vars

----------------------------------------------------------------------------
(* Properties *)

NodeIds == {nodes[i].id : i \in DOMAIN nodes}

IsTrackStep == tracked' = tracked + 1

\* C1: in every state reached by initialize (CRM import or fixtures, with or
\* without enrichment) and trackInteraction calls, the influenceScore of every
\* contact node is an integer from 0 to 100.
InfluenceScoreInRange ==
  \A i \in DOMAIN nodes :
    nodes[i].type = "contact" => nodes[i].influenceScore \in 0..100

\* an imported, enriched and tracked contact that carries a computed score
InfluenceScoreWitness ==
  /\ initialized /\ hubspotOn /\ tracked > 0
  /\ \E i \in DOMAIN nodes :
       /\ nodes[i].type = "contact" /\ nodes[i].verified
       /\ nodes[i].influenceScore >= 30

\* C2: every edge of the store has a strength between 0 and 1, the edges made
\* from relationship suggestions included.
EdgeStrengthInUnitRange ==
  \A i \in DOMAIN edges : edges[i].strength \in 0..1000

\* C3: trackInteraction never decreases the strength of any edge.
StrengthNeverDecreases ==
  [][IsTrackStep =>
       \A i \in DOMAIN edges : edges'[i].strength >= edges[i].strength]_vars

\* C4: the source and the target of every edge are ids of nodes of the store.
EdgeEndpointsExist ==
  \A i \in DOMAIN edges :
    edges[i].source \in NodeIds /\ edges[i].target \in NodeIds

\* the suggestions of a response that the enrichment loop tries to insert
\* although one of their endpoints is no node of the store
DanglingAttempts(response) ==
  LET sugg == NormalizeRelationships(response)
  IN {k \in DOMAIN sugg :
        /\ sugg[k].source \notin NodeIds \/ sugg[k].target \notin NodeIds
        /\ ~\E i \in DOMAIN edges :
              \/ edges[i].source = sugg[k].source /\ edges[i].target = sugg[k].target
              \/ edges[i].source = sugg[k].target /\ edges[i].target = sugg[k].source}

\* C5: an attempt to insert an edge whose source or target is no node of the
\* store fails with a ReferentialError that reaches the caller, and leaves
\* nodes, edges and interactions as they were.
DanglingInsertRejected ==
  [][\A response \in PossibleResponses :
       (DanglingAttempts(response) # {} /\ RelationshipSuggestions(response))
         => /\ thrown' = "ReferentialError"
            /\ nodes' = nodes
            /\ edges' = edges
            /\ interactions' = interactions]_vars

\* C6: no store holds two nodes with the same id, also when a record occurs
\* twice in an import batch.
NodeIdsUnique ==
  \A i \in DOMAIN nodes, j \in DOMAIN nodes :
    nodes[i].id = nodes[j].id => i = j


\* two ids joined by an edge other than works_at / belongs_to, either way round
Linked(a, b) ==
  \E i \in DOMAIN edges :
    /\ edges[i].type # WORKS_AT
    /\ edges[i].type # BELONGS_TO
    /\ \/ edges[i].source = a /\ edges[i].target = b
       \/ edges[i].source = b /\ edges[i].target = a

\* the ids reachable from s in at most k such hops
RECURSIVE WithinHops(_, _)
WithinHops(s, k) ==
  IF k = 0 THEN {s}
  ELSE LET near == WithinHops(s, k - 1)
       IN near \cup {n \in NodeIds : \E m \in near : Linked(m, n)}

\* C7: findPath(s, t, maxDepth) over existing nodes returns a path exactly
\* when t is within maxDepth hops of s over edges other than works_at and
\* belongs_to, and null otherwise; the path runs from s to t along such edges,
\* has the least possible number of hops, and findPath(A, A) is [A].
FindPathCorrect ==
  pathQuery # NoQuery =>
    LET s == pathQuery.source
        t == pathQuery.target
        path == pathResult.path
        hops == Len(path) - 1
    IN /\ pathResult.found <=> t \in WithinHops(s, pathQuery.maxDepth)
       /\ ~pathResult.found => pathResult = NoPath
       /\ pathResult.found =>
            /\ hops >= 0
            /\ \A k \in DOMAIN path : \E i \in DOMAIN nodes : nodes[i] = path[k]
            /\ path[1].id = s
            /\ path[Len(path)].id = t
            /\ \A k \in 1..hops : Linked(path[k].id, path[k + 1].id)
            /\ \A h \in 0..(hops - 1) : t \notin WithinHops(s, h)
       /\ s = t => pathResult.found /\ Len(path) = 1 /\ path[1].id = s

\* a path of two hops found with maxDepth = 2, past a direct structural edge
FindPathWitness ==
  /\ pathResult.found
  /\ Len(pathResult.path) = 3
  /\ pathQuery.maxDepth = 2
  /\ \E i \in DOMAIN edges :
       /\ edges[i].type = WORKS_AT
       /\ edges[i].source = pathQuery.source
       /\ edges[i].target = pathQuery.target

\* the manager reference the import follows for a fetched contact
ManagerRef(contact) == Or(contact.reportsTo, contact.managerId)

\* the ids of the contacts of the batch the reference of a contact resolves to
ManagersOf(contact, contacts) ==
  {contacts[m].id : m \in {m \in DOMAIN contacts :
      /\ ManagerRef(contact) # None
      /\ \/ contacts[m].id = ManagerRef(contact)
         \/ contacts[m].hubspotId = ManagerRef(contact)}}

\* C8: after a CRM import, a contact whose reportsTo/managerId resolves to a
\* contact of the batch has exactly one reports_to edge to that manager, of
\* strength 0.9 and confirmed; a contact whose reference resolves to nobody has
\* no reports_to edge; every record of the batch is imported.
ReportsToAsImported ==
  [][\A f \in Fetches :
       LoadFromHubSpot(f.contacts, f) =>
         \A k \in DOMAIN f.contacts :
           LET contacts == f.contacts
               from == {i \in DOMAIN edges' :
                          /\ edges'[i].type = REPORTS_TO
                          /\ edges'[i].source = contacts[k].id}
           IN /\ \E i \in DOMAIN nodes' : nodes'[i].id = contacts[k].id
              /\ IF ManagersOf(contacts[k], contacts) = {}
                   THEN from = {}
                   ELSE /\ Cardinality(from) = 1
                        /\ \A i \in from :
                             /\ edges'[i].target \in ManagersOf(contacts[k], contacts)
                             /\ edges'[i].strength = 900
                             /\ edges'[i].confirmed]_vars

\* what the claim adds to a strength for a tracked interaction, in ten
\* thousandths: the increment of the type times 1.2, or times 1 when
\* metadata.completed is false
ClaimedIncrease(type, duration, completed) ==
  (CASE type = "call" -> IF duration > 30 THEN 50 ELSE 20
     [] type = "meeting" -> 40
     [] type = "email" -> 10
     [] OTHER -> 5)
  * (IF completed = "false" THEN 10 ELSE 12)

\* C9: trackInteraction(contactId, type, metadata) sets the strength of each
\* edge that touches contactId and is neither works_at nor belongs_to to
\* min(old + inc * m, 1.0), and leaves the strength of every other edge alone.
\* The arguments of the call are read from the interaction it has appended.
StrengthUpdateAsSpecified ==
  [][IsTrackStep =>
       LET call == interactions'[Len(interactions')]
       IN /\ DOMAIN edges' = DOMAIN edges
          /\ \A j \in DOMAIN edges :
               IF /\ edges[j].source = call.contactId
                     \/ edges[j].target = call.contactId
                  /\ edges[j].type # WORKS_AT
                  /\ edges[j].type # BELONGS_TO
                 THEN 10 * edges'[j].strength =
                        Min(10 * edges[j].strength
                              + ClaimedIncrease(call.type, call.duration,
                                                call.completed),
                            10000)
                 ELSE edges'[j].strength = edges[j].strength]_vars

\* the example of the claim: a completed meeting has taken the 0.5 of the
\* former_colleague edge of contact_1 to 0.548 and left works_at edges at 1.0
StrengthUpdateWitness ==
  /\ tracked = 1
  /\ interactions[Len(interactions)].type = "meeting"
  /\ interactions[Len(interactions)].completed = "true"
  /\ interactions[Len(interactions)].contactId = MC(1)
  /\ \E j \in DOMAIN edges :
       /\ edges[j].id = ME(15) /\ edges[j].strength = 548

\* C10: whenever initialize or trackInteraction has returned, the
\* influenceScore stored on every contact equals the score function evaluated
\* on the current nodes, edges and interactions.
ScoresNeverStale ==
  (initialized /\ pc = "idle") =>
    \A i \in DOMAIN nodes :
      nodes[i].type = "contact" =>
        nodes[i].influenceScore =
          CalculateContactInfluence(nodes, edges, interactions, today, nodes[i].id)

\* initialize has imported and enriched, a suggested edge was added, and a
\* tracked interaction has changed a strength and a score
ScoresWitness ==
  /\ initialized /\ pc = "idle" /\ hubspotOn /\ tracked > 0
  /\ \E j \in DOMAIN edges : ~edges[j].confirmed /\ edges[j].strength = 848
  /\ \E i \in DOMAIN nodes : nodes[i].type = "contact" /\ nodes[i].influenceScore > 30

\* whether the lower-cased title holds the role name as a word of its own
NamesRole(title, role) ==
  Includes(<<" ">> \o ToLowerCase(title) \o <<" ">>,
           <<" ">> \o role \o <<" ">>)

\* the role table of the claim: the highest-ranked role named, 5 for none
ClaimedRolePoints(title) ==
  IF NamesRole(title, <<"c", "e", "o">>) THEN 30
  ELSE IF NamesRole(title, <<"c", "t", "o">>)
          \/ NamesRole(title, <<"c", "f", "o">>) THEN 25
  ELSE IF NamesRole(title, <<"v", "p">>) THEN 20
  ELSE IF NamesRole(title, <<"d", "i", "r", "e", "c", "t", "o", "r">>) THEN 15
  ELSE IF NamesRole(title, <<"m", "a", "n", "a", "g", "e", "r">>) THEN 10
  ELSE 5

\* the score of a contact with given role and deal components, the other
\* components as the scorer computes them
ScoreWith(rolePoints, dealPoints, contactId) ==
  Min(RoundHalves(2 * (rolePoints + dealPoints
                       + StrengthPoints(edges, contactId)
                       + RecencyPoints(interactions, today, contactId))
                  + CentralityHalfPoints(edges, contactId)),
      100)

\* C11: the role component of a contact's score follows the role table: CEO
\* 30, CTO or CFO 25, VP 20, Director 15, Manager 10, the highest-ranked role
\* named in the title winning, and 5 for a title naming none of them (an empty
\* title included).  Stated on the stored score of an imported contact.
RoleComponentFollowsTable ==
  (initialized /\ pc = "idle") =>
    \A i \in DOMAIN nodes :
      nodes[i].type = "contact" =>
        nodes[i].influenceScore =
          ScoreWith(ClaimedRolePoints(nodes[i].title),
                    DealPoints(edges, nodes[i].id), nodes[i].id)

\* the deal-role edges leaving a contact for a deal node
DealRoleEdges(contactId) ==
  {j \in DOMAIN edges :
     /\ edges[j].source = contactId
     /\ edges[j].type \in {DECISION_MAKER_FOR, INFLUENCER_FOR}
     /\ \E i \in DOMAIN nodes :
          nodes[i].id = edges[j].target /\ nodes[i].type = "deal"}

\* C12: the deal component of a contact's score is 10 points per deal
\* association capped at 20: a contact with k outgoing decision_maker_for or
\* influencer_for edges to deals receives min(10 * k, 20).  Stated on the
\* stored score, the other components as the scorer computes them.
DealComponentCountsAssociations ==
  (initialized /\ pc = "idle") =>
    \A i \in DOMAIN nodes :
      nodes[i].type = "contact" =>
        nodes[i].influenceScore =
          ScoreWith(RolePoints(nodes[i].title),
                    Min(10 * Cardinality(DealRoleEdges(nodes[i].id)), 20),
                    nodes[i].id)

\* a step in which the enrichment collaborator fails for the contact at hand:
\* enrichContact comes back without a profile, or getRelationshipSuggestions
\* comes back with nothing
EnrichmentFails == EnrichContact(FALSE) \/ RelationshipSuggestions(<<>>)

\* C13: when the enrichment collaborator fails for a contact,
\* enrichWithLinkedIn leaves the nodes and the edges as they are, lets no
\* exception reach its caller and goes on with the remaining contacts (after
\* the last one initialize finishes and recalculates the scores).
EnrichmentFailureIsNoOp ==
  [][EnrichmentFails =>
       LET cs == ContactIdxs(nodes)
       IN /\ edges' = edges
          /\ thrown' = "none"
          /\ DOMAIN nodes' = DOMAIN nodes
          /\ \A i \in DOMAIN nodes :
               [nodes'[i] EXCEPT !.influenceScore = 0] =
                 [nodes[i] EXCEPT !.influenceScore = 0]
          /\ IF idx < Len(cs)
               THEN nodes' = nodes /\ pc' = "enrich" /\ idx' = idx + 1
               ELSE initialized' /\ pc' = "idle"]_vars

\* enrichment has failed for one contact and succeeded for a later one
EnrichmentFailureWitness ==
  /\ initialized /\ hubspotOn /\ linkedinOn
  /\ \E i \in DOMAIN nodes, j \in DOMAIN nodes :
       /\ i < j
       /\ nodes[i].type = "contact" /\ ~nodes[i].verified
       /\ nodes[j].type = "contact" /\ nodes[j].verified

\* the edges of a sequence that join x and y, in either direction
Between(es, x, y) ==
  {j \in DOMAIN es : \/ (es[j].source = x /\ es[j].target = y)
                      \/ (es[j].source = y /\ es[j].target = x)}

TrackedInteractionsStay ==
  [][\A k \in DOMAIN interactions :
       interactions[k].id[1] = "int_now" =>
         \E m \in DOMAIN interactions' : interactions'[m] = interactions[k]]_vars

\* the open deals of the pipeline analyze last read
ActiveDeals == SelectSeq(pipeline, LAMBDA d : d.stage # "closed")

\* every risk entry analyze found, before sorting and truncation
AllRisks == Flatten([k \in DOMAIN ActiveDeals |-> RisksOf(ActiveDeals[k])])

\* the value of the deal a risk entry is about
RiskValue(risk) ==
  LET k == CHOOSE j \in DOMAIN pipeline : pipeline[j].id = risk.deal_id
  IN pipeline[k].value

\* C16: the risks analyze() returns are in non-increasing order of the value
\* of their deal, and when more than five risk entries exist the five
\* returned are ones with the highest deal values: no entry left out is
\* about a deal worth more than a returned one.
RisksRankedByDealValue ==
  analysis.called =>
    LET risks == analysis.risks
        returned == { risks[k] : k \in DOMAIN risks }
        found == { AllRisks[k] : k \in DOMAIN AllRisks }
    IN /\ \A k \in DOMAIN risks :
            k > 1 => RiskValue(risks[k - 1]) >= RiskValue(risks[k])
       /\ returned \subseteq found
       /\ Cardinality(returned) = Len(risks)
       /\ Len(risks) = Min(Len(AllRisks), 5)
       /\ \A out \in found \ returned :
            \A in \in returned : RiskValue(in) >= RiskValue(out)

\* more than five risk entries were found, about deals of both values, and
\* the first one found was about a $50k deal
RisksRankedWitness ==
  /\ analysis.called
  /\ Len(AllRisks) > 5
  /\ RiskValue(AllRisks[1]) = 50
  /\ RiskValue(analysis.risks[1]) = 500
  /\ \E k \in DOMAIN AllRisks :
       /\ RiskValue(AllRisks[k]) = 50
       /\ \A j \in DOMAIN analysis.risks : analysis.risks[j] # AllRisks[k]

\* the duration table as the specification states it
ClaimedAvgDuration(stage) ==
  CASE stage = "new" -> 3
    [] stage = "contacted" -> 5
    [] stage = "qualified" -> 7
    [] stage = "proposal" -> 10
    [] stage = "negotiation" -> 14

\* whole days since the deal's stage entry date or, without one, since its
\* last activity
WholeDaysInStage(deal) ==
  LET since == IF deal.stageEntryDate # NoDate THEN deal.stageEntryDate
               ELSE deal.lastActivity
      hours == NowHours - since
  IN CHOOSE n \in 0..(MaxStageDays + 2) :
       HoursPerDay * n <= hours /\ hours < HoursPerDay * (n + 1)

\* C17: an open deal in a stage of the duration table is reported as
\* stalling (detectStalling says so and, when analyze found at most five
\* risks, a stalling entry for the deal is returned) exactly when its whole
\* days in the stage exceed 1.5 times the stage's average duration.
StallingExactlyPastThreshold ==
  analysis.called =>
    \A k \in DOMAIN pipeline :
      LET deal == pipeline[k]
          past == 2 * WholeDaysInStage(deal) > 3 * ClaimedAvgDuration(deal.stage)
      IN deal.stage \in TableStages =>
           /\ DetectStalling(deal).isStalling <=> past
           /\ Len(AllRisks) <= 5 =>
                (past <=> \E j \in DOMAIN analysis.risks :
                            /\ analysis.risks[j].deal_id = deal.id
                            /\ analysis.risks[j].issue = "stalling")

\* a qualified deal 11 days in its stage (threshold 10.5) was analyzed and
\* reported as stalling
StallingWitness ==
  /\ analysis.called
  /\ Len(pipeline) = 1
  /\ pipeline[1].stage = "qualified"
  /\ WholeDaysInStage(pipeline[1]) = 11
  /\ \E j \in DOMAIN analysis.risks :
       /\ analysis.risks[j].deal_id = pipeline[1].id
       /\ analysis.risks[j].issue = "stalling"

\* a negotiation deal 21 days in its stage (threshold 21) was analyzed
StallingAtThresholdSeen ==
  /\ analysis.called
  /\ Len(pipeline) = 1
  /\ pipeline[1].stage = "negotiation"
  /\ WholeDaysInStage(pipeline[1]) = 21

\* whether the title names a director or manager role and no CEO, CTO, CFO
\* or VP role
NamesInfluencerOnly(title) ==
  /\ \/ NamesRole(title, <<"d", "i", "r", "e", "c", "t", "o", "r">>)
     \/ NamesRole(title, <<"m", "a", "n", "a", "g", "e", "r">>)
  /\ ~NamesRole(title, <<"c", "e", "o">>)
  /\ ~NamesRole(title, <<"c", "t", "o">>)
  /\ ~NamesRole(title, <<"c", "f", "o">>)
  /\ ~NamesRole(title, <<"v", "p">>)

\* C18: a contact imported with a title that names a director or manager
\* role and no CEO/CTO/CFO/VP role has the role influencer, and each of its
\* deal-role edges is an influencer_for edge of strength 0.7.
DirectorsAndManagersAreInfluencers ==
  \A i \in DOMAIN nodes :
    (nodes[i].type = "contact" /\ NamesInfluencerOnly(nodes[i].title)) =>
      /\ nodes[i].role = "influencer"
      /\ \A j \in DOMAIN edges :
           (edges[j].source = nodes[i].id
              /\ edges[j].type \in {DECISION_MAKER_FOR, INFLUENCER_FOR}) =>
             (edges[j].type = INFLUENCER_FOR /\ edges[j].strength = 700)

\* C19: for every filter, every edge in the result of getGraphData(filter)
\* has both its source and its target among the nodes of the same result.
\* Stated for the calls made while every stored edge joins stored nodes, so
\* that an edge the import left without an endpoint is not what breaks it.
GraphDataEdgesClosed ==
  (graphData.called
     /\ \A j \in DOMAIN edges :
          /\ edges[j].source \in NodeIds
          /\ edges[j].target \in NodeIds) =>
    LET nodeIds == { graphData.nodes[i].id : i \in DOMAIN graphData.nodes }
    IN \A j \in DOMAIN graphData.edges :
         /\ graphData.edges[j].source \in nodeIds
         /\ graphData.edges[j].target \in nodeIds

\* C20: getGraphData({dealId: D}) retains, besides the deal node D, exactly
\* the contacts with a decision_maker_for or influencer_for edge targeting D.
DealFilterKeepsDealContacts ==
  (graphData.called
     /\ graphData.filter.dealId # None
     /\ graphData.filter.accountId = None
     /\ graphData.filter.minInfluence = 0) =>
    \A i \in DOMAIN nodes :
      nodes[i].type = "contact" =>
        ((\E k \in DOMAIN graphData.nodes : graphData.nodes[k] = nodes[i])
           <=> \E j \in DOMAIN edges :
                 /\ edges[j].source = nodes[i].id
                 /\ edges[j].target = graphData.filter.dealId
                 /\ edges[j].type \in {DECISION_MAKER_FOR, INFLUENCER_FOR})

\* C21: getOrgChart terminates for every reporting graph, cycles and
\* self-loops included: the level computation never has more invocations
\* waiting than the account has contacts, and a call that reached the level
\* computation returns.
OrgChartTerminates ==
  /\ [](orgChart.depth <= Len(orgChart.keys))
  /\ (orgChart.pc = "levels") ~> (orgChart.pc = "done")

\* getOrgChart returned for an account whose three contacts report to each
\* other in a cycle
OrgChartCycleWitness ==
  /\ orgChart.pc = "done"
  /\ orgChart.accountId = MA(1)
  /\ orgChart.hierarchy[MC(1)].reportsTo = MC(3)
  /\ orgChart.hierarchy[MC(3)].reportsTo = MC(2)
  /\ orgChart.hierarchy[MC(2)].reportsTo = MC(1)

\* the ids of the contacts of the account getOrgChart was called for
ChartContacts == { orgChart.keys[i] : i \in DOMAIN orgChart.keys }

\* the reporting edges of the store that touch a contact of the account
ChartEdges ==
  { k \in DOMAIN edges :
      /\ edges[k].type \in {REPORTS_TO, MANAGES}
      /\ edges[k].source \in ChartContacts \/ edges[k].target \in ChartContacts }

\* the managers the edges assert for contact c
AssertedManagers(c) ==
  { edges[k].target : k \in { j \in ChartEdges :
                                edges[j].type = REPORTS_TO /\ edges[j].source = c } }
  \cup
  { edges[k].source : k \in { j \in ChartEdges :
                                edges[j].type = MANAGES /\ edges[j].target = c } }

\* the contacts above c: the managers of c and of everyone found so far,
\* for n rounds
RECURSIVE Superiors(_, _)
Superiors(c, n) ==
  IF n = 0 THEN {}
  ELSE LET near == Superiors(c, n - 1)
       IN near \cup AssertedManagers(c) \cup UNION { AssertedManagers(s) : s \in near }

\* every reporting edge joins two contacts of the account, nobody has two
\* managers and nobody is above themselves
WellFormedReporting ==
  /\ \A k \in ChartEdges :
       edges[k].source \in ChartContacts /\ edges[k].target \in ChartContacts
  /\ \A c \in ChartContacts : Cardinality(AssertedManagers(c)) <= 1
  /\ \A c \in ChartContacts : c \notin Superiors(c, Cardinality(ChartContacts))

\* 0 without a manager, else 1 + the level of the manager
RECURSIVE ClaimedLevel(_)
ClaimedLevel(c) ==
  IF AssertedManagers(c) = {} THEN 0
  ELSE 1 + ClaimedLevel(CHOOSE mgr \in AssertedManagers(c) : TRUE)

\* C22: for a well-formed reporting graph getOrgChart gives every contact
\* level 0 if it has no manager and otherwise 1 + the level of its manager.
OrgChartLevels ==
  (orgChart.pc = "done" /\ WellFormedReporting) =>
    \A c \in ChartContacts : orgChart.hierarchy[c].level = ClaimedLevel(c)

\* getOrgChart returned for a chain of three contacts: levels 0, 1 and 2
OrgChartLevelsWitness ==
  /\ orgChart.pc = "done"
  /\ orgChart.accountId = MA(1)
  /\ WellFormedReporting
  /\ orgChart.hierarchy[MC(1)].level = 0
  /\ orgChart.hierarchy[MC(2)].level = 1
  /\ orgChart.hierarchy[MC(3)].level = 2

\* the contacts of the account as the store has them
AccountContactIds(accountId) ==
  { edges[k].source : k \in { j \in DOMAIN edges :
                                /\ edges[j].target = accountId
                                /\ edges[j].type = WORKS_AT } }

\* C23: getOrgChart raises no error and returns an entry for every contact
\* of the account also when a reporting edge links one of its contacts to a
\* node that is not a contact of the account; a contact whose only managers
\* are such nodes gets level 0.
OrgChartToleratesOutsiders ==
  /\ orgChart.pc # "thrown"
  /\ orgChart.pc = "done" =>
       /\ DOMAIN orgChart.hierarchy = AccountContactIds(orgChart.accountId)
       /\ \A c \in ChartContacts :
            (AssertedManagers(c) # {} /\ AssertedManagers(c) \cap ChartContacts = {}) =>
              orgChart.hierarchy[c].level = 0

\* C24: in the hierarchy getOrgChart returns, c is in m's manages list
\* exactly when c's reportsTo is m, for every edge list.
OrgChartPointersInverse ==
  orgChart.pc = "done" =>
    \A c \in ChartContacts, mgr \in ChartContacts :
      (\E k \in DOMAIN orgChart.hierarchy[mgr].manages :
         orgChart.hierarchy[mgr].manages[k] = c)
        <=> orgChart.hierarchy[c].reportsTo = mgr

\* whether the deal's activity history holds a call, email or meeting dated
\* within the last 7 days
RecentContact(deal) ==
  \E k \in DOMAIN deal.activities :
    /\ deal.activities[k].type \in {"call", "email", "meeting"}
    /\ deal.activities[k].date # NoDate
    /\ deal.activities[k].date >= NowHours - 7 * HoursPerDay

\* C25: an open deal is flagged as ghosting exactly when its activity
\* history holds no call, email or meeting dated within the last 7 days,
\* also when the history is empty or holds only other activity types.
GhostingExactlyWithoutRecentContact ==
  analysis.called =>
    \A k \in DOMAIN ActiveDeals :
      DetectGhosting(ActiveDeals[k], GetDealActivities(ActiveDeals[k])).isGhosting
        <=> ~RecentContact(ActiveDeals[k])

\* hot as the specification states it, from the activities of the last 24
\* hours
ClaimedHot(deal) ==
  \/ RecentCount(deal.activities, {"email_open"}) > 2
  \/ RecentCount(deal.activities, {"email_click"}) > 0
  \/ RecentCount(deal.activities, {"document_view"}) > 0

\* C26: every open deal whose momentum is hot is entered into the hot-leads
\* ranking: when at most five deals are hot, each of them is in hot_leads.
HotDealsAreHotLeads ==
  analysis.called =>
    LET hot == { k \in DOMAIN ActiveDeals : ClaimedHot(ActiveDeals[k]) }
    IN Cardinality(hot) <= 5 =>
         \A k \in hot :
           \E j \in DOMAIN analysis.hot_leads :
             analysis.hot_leads[j].deal_id = ActiveDeals[k].id

\* C27: calculateUrgencyScore returns an integer between 1 and 10, also for
\* a deal whose probability or value is no number.  Stated on the scores of
\* the hot leads analyze returns.
UrgencyScoreInRange ==
  \A j \in DOMAIN analysis.hot_leads :
    /\ analysis.hot_leads[j].urgency_score # NaN
    /\ analysis.hot_leads[j].urgency_score \in 1..10

\* each node id, each edge id and each interaction id occurs once
StoreWithoutDuplicates ==
  /\ \A i \in DOMAIN nodes, j \in DOMAIN nodes :
       nodes[i].id = nodes[j].id => i = j
  /\ \A i \in DOMAIN edges, j \in DOMAIN edges :
       edges[i].id = edges[j].id => i = j
  /\ \A i \in DOMAIN interactions, j \in DOMAIN interactions :
       interactions[i].id = interactions[j].id => i = j

\* C28: when a second initialize() is called while the first still awaits
\* the CRM import, the store ends as after a single call: each node id and
\* edge id occurs once and each imported interaction is recorded once.
OverlappingInitializeAsSingle ==
  (calls[1].pc = "returned" /\ calls[2].pc = "returned") =>
    StoreWithoutDuplicates

\* C29: with two enrichWithLinkedIn calls interleaved at their awaits, the
\* store never holds two suggestion-derived edges between the same
\* unordered pair of nodes.
SuggestedEdgesUnique ==
  \A i \in DOMAIN edges, j \in DOMAIN edges :
    (/\ edges[i].id[1] = "linkedin"
     /\ edges[j].id[1] = "linkedin"
     /\ {edges[i].source, edges[i].target} = {edges[j].source, edges[j].target})
      => i = j

\* both calls were given a suggestion for the same pair of contacts while
\* the other call was under way, and the store holds one edge for it
SuggestedEdgesWitness ==
  /\ calls[1].suggestions # <<>>
  /\ calls[2].suggestions # <<>>
  /\ calls[1].pc \in {"enrich", "suggest"}
  /\ {calls[1].suggestions[1].source, calls[1].suggestions[1].target}
       = {calls[2].suggestions[1].source, calls[2].suggestions[1].target}
  /\ \E i \in DOMAIN edges :
       /\ edges[i].id[1] = "linkedin"
       /\ {edges[i].source, edges[i].target}
            = {calls[1].suggestions[1].source, calls[1].suggestions[1].target}

\* C30: after any sequence of createTask, updateTask, toggleTask and
\* moveTaskToState calls every task has completed = true exactly when its
\* state is 'done'.
TaskCompletedIffDone ==
  \A k \in DOMAIN tasks : tasks[k].completed <=> tasks[k].state = "done"

====
